---------------------------- MODULE Spec2Model ----------------------------
(***************************************************************************)
(* IRReceiver: an interrupt-fed edge buffer, drained by a polled isCode(), *)
(* turned into pulse/space pairs, scored against three protocols (JVC,     *)
(* SONY, NEC), decoded per segment and resolved by majority vote.          *)
(*                                                                         *)
(* Two execution contexts are modelled: the edge interrupt (action Edge,   *)
(* which runs handleIrInterrupt_priv when the interrupt is attached) and   *)
(* the poll context (begin, enable, disable, isCode, getCode).  isCode()   *)
(* is split at the points where the interrupt can preempt it: the test of  *)
(* line 131, the cli()/sei() critical section, and the processing of the   *)
(* private snapshot.                                                       *)
(***************************************************************************)
EXTENDS Integers, Sequences, FiniteSets, TLC

(***************************************************************************)
(* Configuration constants (IRReceiver.h)                                  *)
(***************************************************************************)
IR_LIB_MAX_TRANSITIONS == 300
IR_LIB_IDLE_TIMEOUT_MS == 100
IR_LIB_MAX_DECODED_SEGMENTS == 10

\* enum RemoteBrand
UNKNOWN == 0
JVC == 1
SONY == 2
NEC == 3
NUM_BRANDS == 4

JVC_PREAMBLE_PULSE == 8400
JVC_PREAMBLE_SPACE == 4200
JVC_BIT_PULSE == 526
JVC_ZERO_SPACE == 526
JVC_ONE_SPACE == 1574
JVC_REPEAT_DELAY == 22000
JVC_REPEAT_PREAMBLE_PULSE == 0
JVC_REPEAT_PREAMBLE_SPACE == 0
JVC_INITIAL_BITS == 17
JVC_REPEAT_BITS == 16

SONY_PREAMBLE_PULSE == 2400
SONY_PREAMBLE_SPACE == 600
SONY_ZERO_PULSE == 600
SONY_ONE_PULSE == 1200
SONY_BIT_SPACE == 600
SONY_REPEAT_DELAY == 25000
SONY_REPEAT_PREAMBLE_PULSE == 2400
SONY_REPEAT_PREAMBLE_SPACE == 600
SONY_INITIAL_BITS == 13
SONY_REPEAT_BITS == 13

NEC_PREAMBLE_PULSE == 9000
NEC_PREAMBLE_SPACE == 4500
NEC_BIT_PULSE == 563
NEC_ZERO_SPACE == 563
NEC_ONE_SPACE == 563 * 3
NEC_REPEAT_DELAY == 42000
NEC_REPEAT_PREAMBLE_PULSE == 8900
NEC_REPEAT_PREAMBLE_SPACE == 2200
NEC_INITIAL_BITS == 33
NEC_REPEAT_BITS == 1

TIMING_TOLERANCE == 200
REPEAT_GAP_TOLERANCE == 5000

\* 0x7FFFFFFF.  TLC's integers are 32-bit signed, so a uint32_t entry of
\* m_rawTransitions is kept as its two parts: time, the low 31 bits, and
\* hToL, bit 31 (DIRECTION_FLAG_H_TO_L)
TIME_VALUE_MASK == 2147483647
RawTransition(time, hToL) == [time |-> time, hToL |-> hToL]

\* Arduino logic levels
LOW == 0
HIGH == 1

\* the value of m_irPin before begin(), and of an absent pulse or space
NO_PIN == -1
MISSING == -1

\* struct DecodedIR and its default value
DecodedIR(b, c, a) == [brand |-> b, command |-> c, address |-> a]
EmptyFrame == DecodedIR(UNKNOWN, -1, -1)

PulseSpacePair(p, s) == [pulse |-> p, space |-> s]

Abs(x) == IF x < 0 THEN -x ELSE x

\* The element of a one-element set.  The({e : x \in {v}}) is e with x
\* standing for the value of v: a local of the code, computed once.
The(S) == CHOOSE r \in S : TRUE

(***************************************************************************)
(* Tolerance helpers and preamble matching                                 *)
(***************************************************************************)
\* faulty variant: the boundary itself is rejected
isWithinTolerance_Strict(captured, expected, tolerance) ==
    Abs(captured - expected) < tolerance

isWithinTolerance(captured, expected, tolerance) ==
    Abs(captured - expected) <= tolerance

\* A float is mantissa * 2^exponent with a mantissa of 24 bits; 0.10f is the
\* float nearest to 1/10, a little above it.
PERCENTAGE_TOLERANCE == [mantissa |-> 13421773, exponent |-> -27]

\* The integer part of the float product expected * tolerance_percent, for
\* 0 <= expected < 2^15 and a tolerance of exponent -27.  The exact product
\* is computed in two halves of the mantissa to stay within 32 bits; the
\* rounding of the product to 24 bits moves it by less than 2^-9, never
\* across an integer, since its fraction is a multiple of 1/10 plus less
\* than 2^-12.
FloatProductFloor(expected, tolerance_percent) ==
    (expected * (tolerance_percent.mantissa \div 4096)
       + (expected * (tolerance_percent.mantissa % 4096)) \div 4096) \div 32768

\* An integer is <= a float iff it is <= the integer part of the float; a
\* negative product is below every abs().
isWithinPercentageTolerance(captured, expected, tolerance_percent) ==
    IF expected = 0 THEN captured = 0
    ELSE IF expected < 0 THEN FALSE
    ELSE Abs(captured - expected) <= FloatProductFloor(expected, tolerance_percent)

matchPreamble(pulse, space, isRepeatPreamble) ==
    IF isRepeatPreamble
    THEN IF /\ isWithinTolerance(pulse, JVC_REPEAT_PREAMBLE_PULSE, TIMING_TOLERANCE)
            /\ isWithinTolerance(space, JVC_REPEAT_PREAMBLE_SPACE, TIMING_TOLERANCE)
         THEN JVC
         ELSE IF /\ isWithinTolerance(pulse, SONY_REPEAT_PREAMBLE_PULSE, TIMING_TOLERANCE)
                 /\ isWithinTolerance(space, SONY_REPEAT_PREAMBLE_SPACE, TIMING_TOLERANCE)
         THEN SONY
         ELSE IF /\ isWithinTolerance(pulse, NEC_REPEAT_PREAMBLE_PULSE, TIMING_TOLERANCE)
                 /\ isWithinTolerance(space, NEC_REPEAT_PREAMBLE_SPACE, TIMING_TOLERANCE)
         THEN NEC
         ELSE UNKNOWN
    ELSE IF /\ isWithinTolerance(pulse, JVC_PREAMBLE_PULSE, TIMING_TOLERANCE)
            /\ isWithinTolerance(space, JVC_PREAMBLE_SPACE, TIMING_TOLERANCE)
         THEN JVC
         ELSE IF /\ isWithinTolerance(pulse, SONY_PREAMBLE_PULSE, TIMING_TOLERANCE)
                 /\ isWithinTolerance(space, SONY_PREAMBLE_SPACE, TIMING_TOLERANCE)
         THEN SONY
         ELSE IF /\ isWithinTolerance(pulse, NEC_PREAMBLE_PULSE, TIMING_TOLERANCE)
                 /\ isWithinTolerance(space, NEC_PREAMBLE_SPACE, TIMING_TOLERANCE)
         THEN NEC
         ELSE UNKNOWN

(***************************************************************************)
(* Pair extractor: _processRawTransitionsToPairs.  The result is the live  *)
(* prefix m_pulseSpacePairs[0 .. m_pulseSpacePairCount-1] as a sequence.   *)
(***************************************************************************)
\* value & TIME_VALUE_MASK
TimeOf(value) == value.time

\* faulty variant: the wrapped difference is one short
DeltaTime_OneShort(previousTimeVal, currentTimeVal) ==
    IF currentTimeVal >= previousTimeVal
    THEN currentTimeVal - previousTimeVal
    ELSE (TIME_VALUE_MASK - previousTimeVal) + currentTimeVal

DeltaTime(previousTimeVal, currentTimeVal) ==
    IF currentTimeVal >= previousTimeVal
    THEN currentTimeVal - previousTimeVal
    ELSE (TIME_VALUE_MASK - previousTimeVal) + currentTimeVal + 1

\* The loops of the pipeline are written in closed form, iteration by
\* iteration, and not as recursions: a snapshot holds up to
\* IR_LIB_MAX_TRANSITIONS entries.

\* deltaTime of iteration i of the loop of line 197 (i = 1 .. capturedCount-1):
\* the time from entry i-1 to entry i of the snapshot, entries counted from 0
DeltaAt(localTransitions, i) ==
    DeltaTime(TimeOf(localTransitions[i]), TimeOf(localTransitions[i + 1]))

\* The iterations that run: iteration i starts with (i-1) \div 2 pairs stored
\* (odd iterations take a pulse, even ones store a pair) and breaks at line
\* 198 when that is IR_LIB_MAX_TRANSITIONS / 2.
PairLoopIterations(capturedCount) ==
    IF capturedCount - 1 < IR_LIB_MAX_TRANSITIONS
    THEN capturedCount - 1 ELSE IR_LIB_MAX_TRANSITIONS

\* faulty variant: the pair is stored with its pulse and its space exchanged
PairAt_Exchanged(localTransitions, k) ==
    PulseSpacePair(DeltaAt(localTransitions, 2 * k), DeltaAt(localTransitions, 2 * k - 1))

\* lines 224-239: the pair stored by iteration 2k
PairAt(localTransitions, k) ==
    LET currentPulse == DeltaAt(localTransitions, 2 * k - 1)
        space == DeltaAt(localTransitions, 2 * k)
    IN  IF space > IR_LIB_IDLE_TIMEOUT_MS * 1000
        THEN PulseSpacePair(currentPulse, MISSING)
        ELSE PulseSpacePair(currentPulse, space)

\* faulty variant: every time difference is stored as a pair of its own
processRawTransitionsToPairs_PairPerEdge(localTransitions) ==
    IF Len(localTransitions) < 2
    THEN << >>
    ELSE [k \in 1..(Len(localTransitions) - 1) |->
             PulseSpacePair(DeltaAt(localTransitions, k), MISSING)]

\* faulty variant: no test of capturedCount < 2, a lone edge gives a pair
processRawTransitionsToPairs_LoneEdge(localTransitions) ==
    IF Len(localTransitions) = 0 THEN << >>
    ELSE IF Len(localTransitions) = 1
    THEN <<PulseSpacePair(TimeOf(localTransitions[1]), MISSING)>>
    ELSE The({[k \in 1..(m \div 2) |-> PairAt(localTransitions, k)]
              \o (IF m % 2 = 1 /\ m \div 2 < IR_LIB_MAX_TRANSITIONS \div 2
                  THEN <<PulseSpacePair(DeltaAt(localTransitions, m), MISSING)>>
                  ELSE << >>) :
                 m \in {PairLoopIterations(Len(localTransitions))}})

processRawTransitionsToPairs(localTransitions) ==
    IF Len(localTransitions) < 2
    THEN << >>
    ELSE The({[k \in 1..(m \div 2) |-> PairAt(localTransitions, k)]
              \o (IF m % 2 = 1 /\ m \div 2 < IR_LIB_MAX_TRANSITIONS \div 2
                  THEN <<PulseSpacePair(DeltaAt(localTransitions, m), MISSING)>>
                  ELSE << >>) :
                 m \in {PairLoopIterations(Len(localTransitions))}})

(***************************************************************************)
(* Scorer.  Pairs are indexed from 1; s and e are the first and last pair  *)
(* of a segment (currentSegmentStartPairIndex + 1 and i + 1 of the code).  *)
(***************************************************************************)
\* the space of pair j is a data space: present and not a repeat gap
IsDataSpace(pairs, j, repeatDelay) ==
    /\ pairs[j].space # -1
    /\ ~isWithinTolerance(pairs[j].space, repeatDelay, REPEAT_GAP_TOLERANCE)

\* firstValidDataSpace of the structure checks, -1 when there is none
FirstValidDataSpace(pairs, from, e, repeatDelay) ==
    LET valid == {j \in from..e : IsDataSpace(pairs, j, repeatDelay)}
    IN  IF valid = {} THEN -1
        ELSE pairs[CHOOSE j \in valid : \A k \in valid : j <= k].space

\* the marksAreFixed loop of scoreJVC and scoreNEC (a missing pulse is skipped)
MarksAreFixed(pairs, from, e) ==
    \A j \in from..e :
        \/ pairs[j].pulse = -1
        \/ isWithinTolerance(pairs[j].pulse, pairs[from].pulse, TIMING_TOLERANCE)

\* the spacesAreFixed loop of scoreSonySIRC12 and the allSpacesFixed loop of scoreNEC
SpacesFixedStrict(pairs, from, e, repeatDelay) ==
    \E first \in {FirstValidDataSpace(pairs, from, e, repeatDelay)} :
        /\ first # -1
        /\ \A j \in from..e :
              IF IsDataSpace(pairs, j, repeatDelay)
              THEN isWithinTolerance(pairs[j].space, first, TIMING_TOLERANCE)
              ELSE ~(pairs[j].space # -1 /\ j # e)

\* the allSpacesFixed loop of scoreJVC (no test for a gap inside the segment)
SpacesFixedJVC(pairs, from, e) ==
    \E first \in {FirstValidDataSpace(pairs, from, e, JVC_REPEAT_DELAY)} :
        /\ first # -1
        /\ \A j \in from..e :
              IsDataSpace(pairs, j, JVC_REPEAT_DELAY)
                  => isWithinTolerance(pairs[j].space, first, TIMING_TOLERANCE)

B2N(b) == IF b THEN 1 ELSE 0

\* The preamble test of a scorer on the segment that starts at pair s: true
\* when the scorer takes the pair as a preamble (score++ and
\* segmentDataPairsStartIndex moved past it).  scoreJVC makes the test for
\* the first segment only.
ScorePreamble(brand, pairs, s, isInitialFrame) ==
    IF brand = SONY
    THEN /\ pairs[s].space # -1
         /\ matchPreamble(pairs[s].pulse, pairs[s].space, ~isInitialFrame) = SONY
    ELSE IF brand = JVC
    THEN /\ isInitialFrame
         /\ pairs[s].pulse # -1 /\ pairs[s].space # -1
         /\ matchPreamble(pairs[s].pulse, pairs[s].space, FALSE) = JVC
    ELSE /\ pairs[s].pulse # -1 /\ pairs[s].space # -1
         /\ matchPreamble(pairs[s].pulse, pairs[s].space, ~isInitialFrame) = NEC

\* The structure test of a scorer on the segment of pairs s..e: true when
\* the scorer awards the structure point (the score++ of lines 486, 560 and
\* 648).  scoreSonySIRC12 and scoreNEC test the pairs after the preamble
\* they took; scoreJVC counts the pairs of the whole segment and tests a
\* later segment from its first pair; scoreNEC tests the first segment only.
StructurePoint(brand, pairs, s, e, isInitialFrame) ==
    LET dataStart == IF ScorePreamble(brand, pairs, s, isInitialFrame) THEN s + 1 ELSE s
        dataPairCountInSegment == e - dataStart + 1
    IN  IF brand = SONY
        THEN LET marksAreVariable ==
                     ~(\A j \in (dataStart + 1)..e :
                          isWithinTolerance(pairs[j].pulse, pairs[dataStart].pulse,
                                            TIMING_TOLERANCE))
                 spacesAreFixed == SpacesFixedStrict(pairs, dataStart, e, SONY_REPEAT_DELAY)
             IN  dataPairCountInSegment > 1 /\ marksAreVariable /\ spacesAreFixed
        ELSE IF brand = JVC
        THEN LET checkStart == IF isInitialFrame THEN dataStart ELSE s
                 marksAreFixed == MarksAreFixed(pairs, checkStart, e)
                 spacesAreVariable == ~SpacesFixedJVC(pairs, checkStart, e)
             IN  e - s + 1 > 1 /\ marksAreFixed /\ spacesAreVariable
        ELSE LET marksAreFixed == MarksAreFixed(pairs, dataStart, e)
                 allSpacesFixed == SpacesFixedStrict(pairs, dataStart, e, NEC_REPEAT_DELAY)
                 \* line 624 sets spacesAreVariable when the marks are fixed,
                 \* line 645 when the spaces are not all fixed
                 spacesAreVariable == marksAreFixed \/ ~allSpacesFixed
             IN  dataPairCountInSegment > 1 /\ isInitialFrame
                 /\ marksAreFixed /\ spacesAreVariable

\* points of one SONY segment (body of "if (segmentPairCount > 0)")
SonySegmentScore(pairs, s, e, isInitialFrame) ==
    LET preamble == ScorePreamble(SONY, pairs, s, isInitialFrame)
        dataStart == IF preamble THEN s + 1 ELSE s
        dataPairCountInSegment == e - dataStart + 1
        expected == IF isInitialFrame THEN SONY_INITIAL_BITS - 1 ELSE SONY_REPEAT_BITS - 1
    IN  B2N(preamble)
        + (IF dataPairCountInSegment > 0
           THEN B2N(isWithinTolerance(dataPairCountInSegment, expected, 2))
                + B2N(StructurePoint(SONY, pairs, s, e, isInitialFrame))
           ELSE 0)

\* points of one JVC segment
JVCSegmentScore(pairs, s, e, isInitialFrame) ==
    LET segmentPairCount == e - s + 1
        preamble == ScorePreamble(JVC, pairs, s, isInitialFrame)
        dataStart == IF preamble THEN s + 1 ELSE s
        repeatLength ==
            ~isInitialFrame /\ isWithinTolerance(segmentPairCount, JVC_INITIAL_BITS, 2)
        initialLength ==
            isInitialFrame /\ isWithinTolerance(e - dataStart + 1, JVC_INITIAL_BITS - 1, 2)
    IN  B2N(preamble) + B2N(repeatLength) + B2N(initialLength)
        + B2N(StructurePoint(JVC, pairs, s, e, isInitialFrame))

\* points of one NEC segment
NECSegmentScore(pairs, s, e, isInitialFrame) ==
    LET preamble == ScorePreamble(NEC, pairs, s, isInitialFrame)
        dataStart == IF preamble THEN s + 1 ELSE s
        dataPairCountInSegment == e - dataStart + 1
        lengthOk ==
            IF isInitialFrame
            THEN isWithinTolerance(dataPairCountInSegment, NEC_INITIAL_BITS - 1, 2)
            ELSE isWithinTolerance(dataPairCountInSegment, NEC_REPEAT_BITS, 1)
    IN  B2N(preamble)
        + (IF dataPairCountInSegment > 0
              \/ (~isInitialFrame /\ dataPairCountInSegment = NEC_REPEAT_BITS)
           THEN B2N(lengthOk)
                + B2N(StructurePoint(NEC, pairs, s, e, isInitialFrame))
           ELSE 0)

RepeatDelayOf(brand) ==
    IF brand = SONY THEN SONY_REPEAT_DELAY
    ELSE IF brand = NEC THEN NEC_REPEAT_DELAY
    ELSE IF brand = JVC THEN JVC_REPEAT_DELAY
    ELSE 0

SegmentScore(brand, pairs, s, e, isInitialFrame) ==
    IF brand = SONY THEN SonySegmentScore(pairs, s, e, isInitialFrame)
    ELSE IF brand = JVC THEN JVCSegmentScore(pairs, s, e, isInitialFrame)
    ELSE NECSegmentScore(pairs, s, e, isInitialFrame)

\* a scorer's test for the end of a segment at pair i
ScoreSegmentEnd(brand, pairs, i) ==
    \/ /\ pairs[i].space # -1
       /\ isWithinTolerance(pairs[i].space, RepeatDelayOf(brand), REPEAT_GAP_TOLERANCE)
    \/ i = Len(pairs)

\* the pairs at which a scorer ends a segment
ScoreSegmentEnds(brand, pairs) ==
    {i \in 1..Len(pairs) : ScoreSegmentEnd(brand, pairs, i)}

\* currentSegmentStartPairIndex of the segment that ends at pair e: the pair
\* after the end before e
SegmentStart(ends, e) ==
    IF \E x \in ends : x < e
    THEN (CHOOSE x \in ends : x < e /\ \A y \in ends : y < e => y <= x) + 1
    ELSE 1

\* The segmentation loop shared by the three scorers, as the set of points
\* it awards: one element for every score++, named by the segment (its last
\* pair) and the number of the point within the segment.
ScorePoints(brand, pairs) ==
    The({UNION {{<<e, point>> :
                    point \in 1..SegmentScore(brand, pairs, SegmentStart(ends, e), e,
                                              \A x \in ends : e <= x)} :
                  e \in ends} :
            ends \in {ScoreSegmentEnds(brand, pairs)}})

scoreSonySIRC12(pairs) == Cardinality(ScorePoints(SONY, pairs))
scoreJVC(pairs) == Cardinality(ScorePoints(JVC, pairs))
scoreNEC(pairs) == Cardinality(ScorePoints(NEC, pairs))

(***************************************************************************)
(* Segment decoder.  dataPairs is the sub-sequence handed to the decoder   *)
(* (segmentDataPtr, numDataPairsInSegment).                                *)
(***************************************************************************)
\* rawBits is kept as the set of the positions of its 1 bits (a uint32_t
\* does not fit the integers of the model)
Bits(rawBits, bitCount) == [rawBits |-> rawBits, bitCount |-> bitCount]

\* (rawBits >> shift) & (2^width - 1)
RECURSIVE Field(_, _, _)
Field(rawBits, shift, width) ==
    IF width = 0 THEN 0
    ELSE (IF shift \in rawBits THEN 1 ELSE 0) + 2 * Field(rawBits, shift + 1, width - 1)

\* bitCount when a bit loop ends: the loop takes one bit from each pair, from
\* the first on, and ends at the first pair that gives none (stops holds the
\* pairs that give none), after the last pair, or with maxBitsToDecode bits
BitCount(dataPairCount, maxBitsToDecode, stops) ==
    The({IF taken < maxBitsToDecode THEN taken ELSE maxBitsToDecode :
            taken \in {IF stops = {} THEN dataPairCount
                       ELSE (CHOOSE i \in stops : \A j \in stops : i <= j) - 1}})

\* faulty variant: a bit also needs the bit space after its pulse
SonyBitAt_WithSpace(dataPairs, i) ==
    /\ dataPairs[i].pulse # -1
    /\ \/ isWithinTolerance(dataPairs[i].pulse, SONY_ZERO_PULSE, TIMING_TOLERANCE)
       \/ isWithinTolerance(dataPairs[i].pulse, SONY_ONE_PULSE, TIMING_TOLERANCE)
    /\ isWithinTolerance(dataPairs[i].space, SONY_BIT_SPACE, TIMING_TOLERANCE)

\* lines 680-684: the pair gives a bit
SonyBitAt(dataPairs, i) ==
    /\ dataPairs[i].pulse # -1
    /\ \/ isWithinTolerance(dataPairs[i].pulse, SONY_ZERO_PULSE, TIMING_TOLERANCE)
       \/ isWithinTolerance(dataPairs[i].pulse, SONY_ONE_PULSE, TIMING_TOLERANCE)

\* faulty variant: the first bit received becomes the most significant one
SonyBits_MsbFirst(dataPairs, maxBitsToDecode) ==
    The({Bits({bitCount - 1 - k : k \in
                  {j \in 0..(bitCount - 1) :
                      ~isWithinTolerance(dataPairs[j + 1].pulse, SONY_ZERO_PULSE,
                                         TIMING_TOLERANCE)}},
              bitCount) :
            bitCount \in {BitCount(Len(dataPairs), maxBitsToDecode,
                                   {i \in 1..Len(dataPairs) : ~SonyBitAt(dataPairs, i)})}})

\* the pulse-coded bit loop of decodeWinningSegment (lines 677-687); the
\* breaks of lines 685 and 686 leave a loop that has all its bits
SonyBits(dataPairs, maxBitsToDecode) ==
    The({Bits({k \in 0..(bitCount - 1) :
                  ~isWithinTolerance(dataPairs[k + 1].pulse, SONY_ZERO_PULSE,
                                     TIMING_TOLERANCE)},
              bitCount) :
            bitCount \in {BitCount(Len(dataPairs), maxBitsToDecode,
                                   {i \in 1..Len(dataPairs) : ~SonyBitAt(dataPairs, i)})}})

\* faulty variant: a missing last space is not inferred
SpaceAt_NotInferred(dataPairs, i, zeroSpace) == dataPairs[i].space

\* lines 700 and 734: the space of pair i, the last one inferred when missing
SpaceAt(dataPairs, i, zeroSpace) ==
    IF i = Len(dataPairs) /\ dataPairs[i].space = -1
    THEN zeroSpace ELSE dataPairs[i].space

\* lines 702-708 and 736-742: the pair gives a bit
SpaceBitAt(dataPairs, i, expectedPulse, zeroSpace, oneSpace) ==
    /\ isWithinTolerance(dataPairs[i].pulse, expectedPulse, TIMING_TOLERANCE)
    /\ SpaceAt(dataPairs, i, zeroSpace) # -1
    /\ \/ isWithinTolerance(SpaceAt(dataPairs, i, zeroSpace), zeroSpace, TIMING_TOLERANCE)
       \/ isWithinTolerance(SpaceAt(dataPairs, i, zeroSpace), oneSpace, TIMING_TOLERANCE)

\* faulty variant: the first bit received becomes the most significant one
SpaceBits_MsbFirst(dataPairs, maxBitsToDecode, expectedPulse, zeroSpace, oneSpace) ==
    The({Bits({bitCount - 1 - k : k \in
                  {j \in 0..(bitCount - 1) :
                      ~isWithinTolerance(SpaceAt(dataPairs, j + 1, zeroSpace), zeroSpace,
                                         TIMING_TOLERANCE)}},
              bitCount) :
            bitCount \in {BitCount(Len(dataPairs), maxBitsToDecode,
                                   {i \in 1..Len(dataPairs) :
                                       ~SpaceBitAt(dataPairs, i, expectedPulse,
                                                   zeroSpace, oneSpace)})}})

\* the space-coded bit loop of decodeWinningSegment (JVC, lines 698-709) and of
\* decodeNECData (lines 732-743)
SpaceBits(dataPairs, maxBitsToDecode, expectedPulse, zeroSpace, oneSpace) ==
    The({Bits({k \in 0..(bitCount - 1) :
                  ~isWithinTolerance(SpaceAt(dataPairs, k + 1, zeroSpace), zeroSpace,
                                     TIMING_TOLERANCE)},
              bitCount) :
            bitCount \in {BitCount(Len(dataPairs), maxBitsToDecode,
                                   {i \in 1..Len(dataPairs) :
                                       ~SpaceBitAt(dataPairs, i, expectedPulse,
                                                   zeroSpace, oneSpace)})}})

\* faulty variant: the JVC command set from 8 bits on, the address only
\* with 16 bits
decodeWinningSegment_JvcThresholdsExchanged(brand, dataPairs) ==
    IF brand = UNKNOWN \/ Len(dataPairs) = 0 THEN EmptyFrame
    ELSE IF brand = SONY
    THEN The({DecodedIR(SONY,
                        IF b.bitCount >= 7 THEN Field(b.rawBits, 0, 7) ELSE -1,
                        IF b.bitCount >= 12 THEN Field(b.rawBits, 7, 5) ELSE -1) :
                 b \in {SonyBits(dataPairs, SONY_INITIAL_BITS - 1)}})
    ELSE IF brand = JVC
    THEN The({DecodedIR(JVC,
                        IF b.bitCount >= 8 THEN Field(b.rawBits, 8, 8) ELSE -1,
                        IF b.bitCount >= 16 THEN Field(b.rawBits, 0, 8) ELSE -1) :
                 b \in {SpaceBits(dataPairs, 16,
                                  JVC_BIT_PULSE, JVC_ZERO_SPACE, JVC_ONE_SPACE)}})
    ELSE DecodedIR(brand, -1, -1)

\* faulty variant: the first JVC byte taken as the command, the second as
\* the address
decodeWinningSegment_JvcSwapped(brand, dataPairs) ==
    IF brand = UNKNOWN \/ Len(dataPairs) = 0 THEN EmptyFrame
    ELSE IF brand = SONY
    THEN The({DecodedIR(SONY,
                        IF b.bitCount >= 7 THEN Field(b.rawBits, 0, 7) ELSE -1,
                        IF b.bitCount >= 12 THEN Field(b.rawBits, 7, 5) ELSE -1) :
                 b \in {SonyBits(dataPairs, SONY_INITIAL_BITS - 1)}})
    ELSE IF brand = JVC
    THEN The({DecodedIR(JVC,
                        IF b.bitCount >= 16 THEN Field(b.rawBits, 0, 8) ELSE -1,
                        IF b.bitCount >= 8 THEN Field(b.rawBits, 8, 8) ELSE -1) :
                 b \in {SpaceBits(dataPairs, 16,
                                  JVC_BIT_PULSE, JVC_ZERO_SPACE, JVC_ONE_SPACE)}})
    ELSE DecodedIR(brand, -1, -1)

\* IRReceiver::decodeWinningSegment (lines 662-716)
decodeWinningSegment(brand, dataPairs) ==
    IF brand = UNKNOWN \/ Len(dataPairs) = 0 THEN EmptyFrame
    ELSE IF brand = SONY
    THEN The({DecodedIR(SONY,
                        IF b.bitCount >= 7 THEN Field(b.rawBits, 0, 7) ELSE -1,
                        IF b.bitCount >= 12 THEN Field(b.rawBits, 7, 5) ELSE -1) :
                 b \in {SonyBits(dataPairs, SONY_INITIAL_BITS - 1)}})
    ELSE IF brand = JVC
    THEN The({DecodedIR(JVC,
                        IF b.bitCount >= 16 THEN Field(b.rawBits, 8, 8) ELSE -1,
                        IF b.bitCount >= 8 THEN Field(b.rawBits, 0, 8) ELSE -1) :
                 b \in {SpaceBits(dataPairs, 16,
                                  JVC_BIT_PULSE, JVC_ZERO_SPACE, JVC_ONE_SPACE)}})
    ELSE DecodedIR(brand, -1, -1)

\* lines 745-780: the bytes of the bits decoded, as struct DecodedNECInternal
\* [base, checksumValid]
\* faulty variant: a command whose checksum fails is dropped
NECFields_RejectsMismatch(b) ==
    LET addressByte1 == IF b.bitCount >= 8 THEN Field(b.rawBits, 0, 8) ELSE -1
        commandByte1 == IF b.bitCount >= 24 THEN Field(b.rawBits, 16, 8) ELSE -1
        commandByte2 == IF b.bitCount >= 32 THEN Field(b.rawBits, 24, 8) ELSE -1
        checksumValid == /\ commandByte1 # -1 /\ commandByte2 # -1
                         /\ (commandByte1 + commandByte2) % 256 = 255
    IN  [base |-> DecodedIR(NEC, IF checksumValid THEN commandByte1 ELSE -1, addressByte1),
         checksumValid |-> checksumValid]

\* faulty variant: the address is the first byte, whatever the second is
NECFields_FirstByteAddress(b) ==
    LET addressByte1 == IF b.bitCount >= 8 THEN Field(b.rawBits, 0, 8) ELSE -1
        commandByte1 == IF b.bitCount >= 24 THEN Field(b.rawBits, 16, 8) ELSE -1
        commandByte2 == IF b.bitCount >= 32 THEN Field(b.rawBits, 24, 8) ELSE -1
    IN  [base |-> DecodedIR(NEC, commandByte1, addressByte1),
         checksumValid |-> /\ commandByte1 # -1 /\ commandByte2 # -1
                           /\ (commandByte1 + commandByte2) % 256 = 255]

NECFields(b) ==
    LET addressByte1 == IF b.bitCount >= 8 THEN Field(b.rawBits, 0, 8) ELSE -1
        addressByte2 == IF b.bitCount >= 16 THEN Field(b.rawBits, 8, 8) ELSE -1
        commandByte1 == IF b.bitCount >= 24 THEN Field(b.rawBits, 16, 8) ELSE -1
        commandByte2 == IF b.bitCount >= 32 THEN Field(b.rawBits, 24, 8) ELSE -1
        address ==
            IF addressByte1 # -1 /\ addressByte2 # -1
               /\ (addressByte1 + addressByte2) % 256 = 255
            THEN addressByte1
            ELSE IF addressByte1 # -1 /\ addressByte2 # -1
            THEN addressByte2 * 256 + addressByte1
            ELSE IF addressByte1 # -1 THEN addressByte1
            ELSE -1
    IN  [base |-> DecodedIR(NEC, commandByte1, address),
         checksumValid |-> /\ commandByte1 # -1 /\ commandByte2 # -1
                           /\ (commandByte1 + commandByte2) % 256 = 255]

decodeNECData(dataPairs) ==
    The({NECFields(b) :
            b \in {SpaceBits(dataPairs, NEC_INITIAL_BITS - 1,
                             NEC_BIT_PULSE, NEC_ZERO_SPACE, NEC_ONE_SPACE)}})

(***************************************************************************)
(* Result resolver: determineWinner.  Returns the new m_finalResultCode.   *)
(***************************************************************************)
\* struct DecodedCount
DecodedCount(d, n, cs) == [data |-> d, count |-> n, checksumValidForNEC |-> cs]

\* faulty variant: the checksum flag is not compared
GroupMatches_IgnoresChecksum(segment, checksum, group) ==
    /\ segment.brand = group.data.brand
    /\ segment.command = group.data.command
    /\ segment.address = group.data.address

GroupMatches(segment, checksum, group) ==
    /\ segment.brand = group.data.brand
    /\ segment.command = group.data.command
    /\ segment.address = group.data.address
    /\ (segment.brand = NEC => checksum = group.checksumValidForNEC)

\* the grouping loop (lines 802-829)
RECURSIVE CountGroups(_, _, _, _)
CountGroups(segments, segmentChecksums, i, counts) ==
    IF i > Len(segments) THEN counts
    ELSE IF segments[i].brand # UNKNOWN /\ segments[i].command # -1
    THEN LET hits == {j \in 1..Len(counts) :
                         GroupMatches(segments[i], segmentChecksums[i], counts[j])}
             first == CHOOSE j \in hits : \A k \in hits : j <= k
         IN  The({CountGroups(segments, segmentChecksums, next, counted) :
                    next \in {i + 1},
                    counted \in
                       {IF hits # {}
                        THEN [counts EXCEPT ![first].count = @ + 1]
                        ELSE IF Len(counts) < IR_LIB_MAX_DECODED_SEGMENTS
                        THEN Append(counts,
                                    DecodedCount(segments[i], 1,
                                                 segments[i].brand = NEC
                                                    /\ segmentChecksums[i]))
                        ELSE counts}})
    ELSE The({CountGroups(segments, segmentChecksums, next, counts) : next \in {i + 1}})

\* faulty variant: of the groups with the greatest count the last one wins
WinnerIndex_LastMaximum(counts, i, maxCount, winnerIndex) ==
    IF Len(counts) = 0 THEN 0
    ELSE CHOOSE w \in DOMAIN counts :
            \A j \in DOMAIN counts :
               /\ counts[j].count <= counts[w].count
               /\ j > w => counts[j].count < counts[w].count

\* faulty variant: the first group wins, whatever the counts
WinnerIndex_FirstGroup(counts, i, maxCount, winnerIndex) ==
    IF Len(counts) > 0 THEN 1 ELSE 0

\* the maximum loop (lines 831-837): winnerIndex, 0 when there is no group
RECURSIVE WinnerIndex(_, _, _, _)
WinnerIndex(counts, i, maxCount, winnerIndex) ==
    IF i > Len(counts) THEN winnerIndex
    ELSE IF counts[i].count > maxCount
    THEN The({WinnerIndex(counts, next, max, i) :
                 next \in {i + 1}, max \in {counts[i].count}})
    ELSE The({WinnerIndex(counts, next, maxCount, winnerIndex) : next \in {i + 1}})

\* faulty variant: the first segment is the result, whatever it decoded to
determineWinner_FirstSegment(segments, segmentChecksums) ==
    IF Len(segments) > 0 THEN segments[1] ELSE EmptyFrame

determineWinner(segments, segmentChecksums) ==
    The({The({IF winnerIndex # 0 THEN counts[winnerIndex].data ELSE EmptyFrame :
                 winnerIndex \in {WinnerIndex(counts, 1, 0, 0)}}) :
            counts \in {CountGroups(segments, segmentChecksums, 1, << >>)}})

(***************************************************************************)
(* _analyzeAndDecodeBurst.  The result holds the fields the function       *)
(* writes: m_brandScores, the live prefix of m_decodedSegments with the    *)
(* local segmentChecksums, m_finalResultCode and m_codeResultIsReady.      *)
(***************************************************************************)
\* lines 282-290: the first brand, in enum order, with the greatest score
RECURSIVE WinningBrand(_, _, _, _)
WinningBrand(scores, i, maxScore, winningBrand) ==
    IF i >= NUM_BRANDS THEN (IF maxScore = 0 THEN UNKNOWN ELSE winningBrand)
    ELSE IF scores[i] > maxScore
    THEN The({WinningBrand(scores, next, max, i) :
                 next \in {i + 1}, max \in {scores[i]}})
    ELSE The({WinningBrand(scores, next, maxScore, winningBrand) : next \in {i + 1}})

\* lines 350-356 and 304-309: does the segment starting at pair s open with
\* the winning brand's preamble
SkipsPreamble(winningBrand, pairs, s, isRepeatPreamble) ==
    /\ s <= Len(pairs)
    /\ pairs[s].pulse # -1 /\ pairs[s].space # -1
    /\ LET preambleMatch == matchPreamble(pairs[s].pulse, pairs[s].space, isRepeatPreamble)
       IN  preambleMatch # UNKNOWN /\ preambleMatch = winningBrand

DecodeSegmentEnd(winningBrand, pairs, i) ==
    \/ /\ RepeatDelayOf(winningBrand) > 0
       /\ pairs[i].space # -1
       /\ isWithinTolerance(pairs[i].space, RepeatDelayOf(winningBrand), REPEAT_GAP_TOLERANCE)
    \/ i = Len(pairs)

\* the pairs at which the decoding loop ends a segment
DecodeSegmentEnds(winningBrand, pairs) ==
    {i \in 1..Len(pairs) : DecodeSegmentEnd(winningBrand, pairs, i)}

\* dataStartForCurrentSegment of the segment that starts at pair s: the
\* initial preamble offset (lines 303-311) or the repeat one (lines 348-356)
DataStart(winningBrand, pairs, s) ==
    IF SkipsPreamble(winningBrand, pairs, s, s # 1) THEN 1 ELSE 0

\* lines 329-341: [base, checksumValid] decoded from the segment s .. e; the
\* empty frame when the segment has no data pair
DecodeSegment(winningBrand, pairs, s, e) ==
    The({IF e - first + 1 > 0
         THEN IF winningBrand = NEC THEN decodeNECData(SubSeq(pairs, first, e))
              ELSE [base |-> decodeWinningSegment(winningBrand, SubSeq(pairs, first, e)),
                    checksumValid |-> FALSE]
         ELSE [base |-> EmptyFrame, checksumValid |-> FALSE] :
            first \in {s + DataStart(winningBrand, pairs, s)}})

\* the k-th element of a set of numbers, in increasing order
Kth(S, k) == CHOOSE e \in S : Cardinality({x \in S : x < e}) = k - 1

\* The decoding loop (lines 314-358): the segments whose frame has a brand
\* are kept, in order, until IR_LIB_MAX_DECODED_SEGMENTS are stored.
DecodeLoop(winningBrand, pairs) ==
    The({The({The({[segments |-> [k \in 1..count |-> results[Kth(kept, k)].base],
                    segmentChecksums |->
                        [k \in 1..count |-> results[Kth(kept, k)].checksumValid]] :
                      count \in {IF Cardinality(kept) < IR_LIB_MAX_DECODED_SEGMENTS
                                 THEN Cardinality(kept)
                                 ELSE IR_LIB_MAX_DECODED_SEGMENTS}}) :
                 kept \in {{e \in DOMAIN results : results[e].base.brand # UNKNOWN}}}) :
            results \in {[e \in DecodeSegmentEnds(winningBrand, pairs) |->
                            DecodeSegment(winningBrand, pairs,
                                          SegmentStart(DecodeSegmentEnds(winningBrand, pairs), e),
                                          e)]}})

Analysis(scores, segments, segmentChecksums, final, ready) ==
    [m_brandScores |-> scores, m_decodedSegments |-> segments,
     segmentChecksums |-> segmentChecksums,
     m_finalResultCode |-> final, m_codeResultIsReady |-> ready]

\* faulty variant: every resolved burst is flagged ready
ResultIsValid_Always(final) == TRUE

\* lines 362-364: the test that guards m_codeResultIsReady = true
ResultIsValid(final) == final.brand # UNKNOWN /\ final.command # -1

NoScores == [b \in 0..(NUM_BRANDS - 1) |-> 0]

\* lines 301-366: segments of the winning brand are decoded and resolved
DecodeAndResolve(scores, winningBrand, pairs) ==
    The({IF Len(d.segments) > 0
         THEN The({Analysis(scores, d.segments, d.segmentChecksums, final,
                            ResultIsValid(final)) :
                      final \in {determineWinner(d.segments, d.segmentChecksums)}})
         ELSE Analysis(scores, << >>, << >>, EmptyFrame, FALSE) :
            d \in {DecodeLoop(winningBrand, pairs)}})

\* lines 274-276: the three scores
BrandScores(pairs) ==
    [b \in 0..(NUM_BRANDS - 1) |->
        IF b = SONY THEN scoreSonySIRC12(pairs)
        ELSE IF b = JVC THEN scoreJVC(pairs)
        ELSE IF b = NEC THEN scoreNEC(pairs)
        ELSE 0]

analyzeAndDecodeBurst(pairs) ==
    IF Len(pairs) = 0 THEN Analysis(NoScores, << >>, << >>, EmptyFrame, FALSE)
    ELSE The({The({IF winningBrand = UNKNOWN
                   THEN Analysis(scores, << >>, << >>, EmptyFrame, FALSE)
                   ELSE DecodeAndResolve(scores, winningBrand, pairs) :
                      winningBrand \in {WinningBrand(scores, 1, 0, UNKNOWN)}}) :
                 scores \in {BrandScores(pairs)}})

(***************************************************************************)
(* Bounds of the model and the environment                                 *)
(***************************************************************************)
\* bursts the remote sends in one behaviour
MaxBursts == 2
\* calls of begin(), enable() and disable() in one behaviour
MaxControlCalls == 3
\* edges that arrive while one call of isCode() is in progress
MaxEdgesInCall == 1

\* the pin the receiver is wired to (example sketch)
IR_RECEIVER_PIN == 4
\* pins handed to begin(): none, the receiver's pin, a pin without interrupts
TestPins == {NO_PIN, IR_RECEIVER_PIN, 40}

\* Arduino core (ESP32): GPIO numbers below 40 map to an interrupt
NOT_AN_INTERRUPT == -1
digitalPinToInterrupt(pin) == IF pin < 40 THEN pin ELSE NOT_AN_INTERRUPT

\* one idle period: the shortest whole number of milliseconds above the timeout
TickUs == (IR_LIB_IDLE_TIMEOUT_MS + 1) * 1000

\* time from the previous event to the first edge of a burst
LeadInUs == 1000

\* A burst script is the sequence of times between its edges, after the
\* lead-in: a SONY frame without preamble, one pulse per bit (least
\* significant first), the spaces 600 us, the last pulse unterminated.
RECURSIVE SonyScript(_)
SonyScript(bits) ==
    IF Len(bits) = 0 THEN << >>
    ELSE <<IF Head(bits) = 1 THEN SONY_ONE_PULSE ELSE SONY_ZERO_PULSE>>
         \o (IF Len(bits) = 1 THEN << >> ELSE <<SONY_BIT_SPACE>>)
         \o SonyScript(Tail(bits))

\* command 1 and command 2, seven bits each
Scripts == << <<LeadInUs>> \o SonyScript(<<1, 0, 0, 0, 0, 0, 0>>),
             <<LeadInUs>> \o SonyScript(<<0, 1, 0, 0, 0, 0, 0>>) >>

\* the remote sends the two commands in turn; n bursts were sent before
ScriptOf(n) == Scripts[(n % Len(Scripts)) + 1]

\* edges sent while a button is held down: more than the edge array holds
MaxHeldEdges == 302

\* One frame of a held button: the SONY preamble, command 21 and address 1
\* (twelve bits, least significant first) and the gap before the repeat.
HeldFrame ==
    <<SONY_PREAMBLE_PULSE, SONY_PREAMBLE_SPACE>>
    \o SonyScript(<<1, 0, 1, 0, 1, 0, 0, 1, 0, 0, 0, 0>>)
    \o <<SONY_REPEAT_DELAY>>

\* the frame over and over, cut after MaxHeldEdges edges
HeldScript ==
    [k \in 1..MaxHeldEdges |->
        IF k = 1 THEN LeadInUs ELSE HeldFrame[((k - 2) % Len(HeldFrame)) + 1]]

(***************************************************************************)
(* State                                                                   *)
(***************************************************************************)
VARIABLES
    \* the IRReceiver object.  m_pulseSpacePairs, m_pulseSpacePairCount,
    \* m_brandScores, m_decodedSegments and m_decodedSegmentCount are written
    \* afresh by every processing step of isCode() before they are read and
    \* are read nowhere else, so they are values of that step (IsCodeProcess),
    \* not variables.
    m_irPin, m_rawTransitions, m_rawTransitionIndex, m_lastTransitionMillis,
    m_lastPinState, m_rawBurstCopied, m_finalResultCode, m_codeResultIsReady,
    m_isInterruptAttached,
    \* isCode() in progress: where it stands and its local snapshot
    pc, localTransitions,
    \* hardware: the clock (us), the level of the receiver's line, the pins
    \* with the edge interrupt attached
    now, pinLevel, attachedPins,
    \* the remote: the rest of the burst being sent, bursts sent, idle periods,
    \* and the edges that arrived during the isCode() in progress
    burst, burstsSent, ticks, edgesInCall,
    \* the caller: calls of begin/enable/disable made, the last API call to
    \* return and its value
    controlCalls, lastCall,
    \* history, of the time since the last snapshot was processed: the time
    \* of the last enable() that reset the capture state (0: none), the time
    \* of the last disable() that discarded recorded edges (0: none); and
    \* whether a snapshot was ever taken, and the time of the latest edge that
    \* was ever copied into a snapshot (0: none)
    enabledAt, disabledAt, everDrained, drainedUpTo,
    \* the analysis bench: the input handed to a pure function of the
    \* pipeline and the value it returned (specifications of the bench only)
    harness

objVars == <<m_irPin, m_rawTransitions, m_rawTransitionIndex, m_lastTransitionMillis,
             m_lastPinState, m_rawBurstCopied, m_finalResultCode, m_codeResultIsReady,
             m_isInterruptAttached>>
isrVars == <<m_rawTransitions, m_rawTransitionIndex, m_lastTransitionMillis, m_lastPinState>>
envVars == <<now, pinLevel, burst, burstsSent, ticks, edgesInCall>>
histVars == <<enabledAt, disabledAt, everDrained, drainedUpTo>>
vars == <<objVars, pc, localTransitions, attachedPins, envVars, controlCalls,
          lastCall, histVars, harness>>

\* the clocks; the model's time stays far below 2^31 us, where neither wraps
micros == now
millis == now \div 1000

\* (a - b > limit) in unsigned long arithmetic: when a < b the difference
\* wraps to 2^32 - (b - a), which exceeds every limit the code uses
UnsignedDiffExceeds(a, b, limit) == IF a >= b THEN a - b > limit ELSE TRUE

digitalRead(pin) == IF pin = IR_RECEIVER_PIN THEN pinLevel ELSE HIGH

\* ret is the value of a bool call, frame the value of getCode(); dropped
\* tells that the call found a result pending and left none
Call(op, ret, frame) == [op |-> op, ret |-> ret, frame |-> frame, dropped |-> FALSE]
ControlCall(op, ret, c) ==
    [op |-> op, ret |-> ret, frame |-> EmptyFrame,
     dropped |-> m_codeResultIsReady /\ ~c.m_codeResultIsReady]

\* the bench is not in use
NoHarness == [op |-> "none"]

\* the constructor
Constructed ==
    /\ m_irPin = NO_PIN
    /\ m_rawTransitions = << >>
    /\ m_rawTransitionIndex = 0
    /\ m_lastTransitionMillis = 0
    /\ m_lastPinState = HIGH
    /\ m_rawBurstCopied = FALSE
    /\ m_finalResultCode = EmptyFrame
    /\ m_codeResultIsReady = FALSE
    /\ m_isInterruptAttached = FALSE
    /\ pc = "idle"
    /\ localTransitions = << >>
    /\ now = 0
    /\ pinLevel = HIGH
    /\ attachedPins = {}
    /\ burst = << >>
    /\ burstsSent = 0
    /\ ticks = 0
    /\ edgesInCall = 0
    /\ controlCalls = 0
    /\ lastCall = Call("none", FALSE, EmptyFrame)
    /\ enabledAt = 0
    /\ disabledAt = 0
    /\ everDrained = FALSE
    /\ drainedUpTo = 0

Init == Constructed /\ harness = NoHarness

(***************************************************************************)
(* begin, enable, disable.  They are written as functions of the fields    *)
(* they read and write (c), since begin() calls the other two.             *)
(*                                                                         *)
(* Each call is one step.  An edge that interrupts enable() before line 84 *)
(* is recorded and then discarded, and leaves the fields as an edge before *)
(* the call does; one after line 84 is recorded as an edge after the call  *)
(* is.  disable() detaches before it writes a field, and getCode() touches *)
(* no field the handler touches.                                           *)
(***************************************************************************)
Control ==
    [m_irPin |-> m_irPin, m_lastPinState |-> m_lastPinState,
     m_lastTransitionMillis |-> m_lastTransitionMillis,
     m_codeResultIsReady |-> m_codeResultIsReady,
     m_rawBurstCopied |-> m_rawBurstCopied,
     m_rawTransitionIndex |-> m_rawTransitionIndex,
     m_isInterruptAttached |-> m_isInterruptAttached,
     attachedPins |-> attachedPins]

\* Entries of m_rawTransitions at and past m_rawTransitionIndex are never read
\* (the copy loop of line 137 stops at capturedCount) and are overwritten by
\* the next edges, so the model keeps the entries below the index only.
LivePrefix(transitions, index) ==
    SubSeq(transitions, 1, IF index < Len(transitions) THEN index ELSE Len(transitions))

SetControl(c) ==
    /\ m_rawTransitions' = LivePrefix(m_rawTransitions, c.m_rawTransitionIndex)
    /\ m_irPin' = c.m_irPin
    /\ m_lastPinState' = c.m_lastPinState
    /\ m_lastTransitionMillis' = c.m_lastTransitionMillis
    /\ m_codeResultIsReady' = c.m_codeResultIsReady
    /\ m_rawBurstCopied' = c.m_rawBurstCopied
    /\ m_rawTransitionIndex' = c.m_rawTransitionIndex
    /\ m_isInterruptAttached' = c.m_isInterruptAttached
    /\ attachedPins' = c.attachedPins

\* faulty variant: enable() leaves the write index where it was
enable_KeepsIndex(c) ==
    IF c.m_irPin = -1 THEN c
    ELSE [c EXCEPT
            !.m_lastPinState = digitalRead(c.m_irPin),
            !.m_lastTransitionMillis = millis,
            !.m_codeResultIsReady = FALSE,
            !.m_rawBurstCopied = FALSE,
            !.m_isInterruptAttached = (digitalPinToInterrupt(c.m_irPin) # NOT_AN_INTERRUPT),
            !.attachedPins = IF digitalPinToInterrupt(c.m_irPin) # NOT_AN_INTERRUPT
                             THEN @ \cup {c.m_irPin} ELSE @]

\* faulty variant: enable() leaves a pending result pending
enable_KeepsResult(c) ==
    IF c.m_irPin = -1 THEN c
    ELSE [c EXCEPT
            !.m_lastPinState = digitalRead(c.m_irPin),
            !.m_lastTransitionMillis = millis,
            !.m_rawBurstCopied = FALSE,
            !.m_rawTransitionIndex = 0,
            !.m_isInterruptAttached = (digitalPinToInterrupt(c.m_irPin) # NOT_AN_INTERRUPT),
            !.attachedPins = IF digitalPinToInterrupt(c.m_irPin) # NOT_AN_INTERRUPT
                             THEN @ \cup {c.m_irPin} ELSE @]

\* lines 68-97
\* faulty variant: no test for a pin that was never set
enable_WithoutPin(c) ==
    [c EXCEPT
        !.m_lastPinState = digitalRead(c.m_irPin),
        !.m_lastTransitionMillis = millis,
        !.m_codeResultIsReady = FALSE,
        !.m_rawBurstCopied = FALSE,
        !.m_rawTransitionIndex = 0,
        !.m_isInterruptAttached = (digitalPinToInterrupt(c.m_irPin) # NOT_AN_INTERRUPT),
        !.attachedPins = IF digitalPinToInterrupt(c.m_irPin) # NOT_AN_INTERRUPT
                         THEN @ \cup {c.m_irPin} ELSE @]

enable(c) ==
    IF c.m_irPin = -1 THEN c
    ELSE [c EXCEPT
            !.m_lastPinState = digitalRead(c.m_irPin),
            !.m_lastTransitionMillis = millis,
            !.m_codeResultIsReady = FALSE,
            !.m_rawBurstCopied = FALSE,
            !.m_rawTransitionIndex = 0,
            !.m_isInterruptAttached = (digitalPinToInterrupt(c.m_irPin) # NOT_AN_INTERRUPT),
            !.attachedPins = IF digitalPinToInterrupt(c.m_irPin) # NOT_AN_INTERRUPT
                             THEN @ \cup {c.m_irPin} ELSE @]

\* faulty variant: disable() clears the flag and leaves the interrupt attached
disable_NoDetach(c) ==
    IF c.m_irPin = -1 \/ ~c.m_isInterruptAttached THEN c
    ELSE [c EXCEPT
            !.m_isInterruptAttached = FALSE,
            !.m_rawTransitionIndex = 0,
            !.m_rawBurstCopied = FALSE,
            !.m_codeResultIsReady = FALSE]

\* lines 99-119
disable(c) ==
    IF c.m_irPin = -1 \/ ~c.m_isInterruptAttached THEN c
    ELSE [c EXCEPT
            !.attachedPins = IF digitalPinToInterrupt(c.m_irPin) # NOT_AN_INTERRUPT
                             THEN @ \ {c.m_irPin} ELSE @,
            !.m_isInterruptAttached = FALSE,
            !.m_rawTransitionIndex = 0,
            !.m_rawBurstCopied = FALSE,
            !.m_codeResultIsReady = FALSE]

\* lines 48-55: the state begin() leaves
begin(c, pin) ==
    LET detached == IF c.m_isInterruptAttached /\ c.m_irPin # -1 THEN disable(c) ELSE c
    IN  enable([detached EXCEPT !.m_irPin = pin])

\* lines 59-65: the value begin() returns
beginResult(c) == ~(~c.m_isInterruptAttached /\ c.m_irPin # -1)

Begin(pin) ==
    /\ pc = "idle"
    /\ controlCalls < MaxControlCalls
    /\ controlCalls' = controlCalls + 1
    /\ SetControl(begin(Control, pin))
    /\ lastCall' = ControlCall("begin", beginResult(begin(Control, pin)),
                                begin(Control, pin))
    /\ enabledAt' = IF pin # -1 THEN now ELSE enabledAt
    /\ disabledAt' = IF m_isInterruptAttached /\ m_irPin # -1 /\ m_rawTransitionIndex > 0
                     THEN now ELSE disabledAt
    /\ UNCHANGED <<m_finalResultCode, pc, localTransitions, envVars, everDrained,
                   drainedUpTo, harness>>

Enable ==
    /\ pc = "idle"
    /\ controlCalls < MaxControlCalls
    /\ controlCalls' = controlCalls + 1
    /\ SetControl(enable(Control))
    /\ lastCall' = ControlCall("enable", FALSE, enable(Control))
    /\ enabledAt' = IF m_irPin # -1 THEN now ELSE enabledAt
    /\ UNCHANGED <<m_finalResultCode, pc, localTransitions, envVars,
                   disabledAt, everDrained, drainedUpTo, harness>>

Disable ==
    /\ pc = "idle"
    /\ controlCalls < MaxControlCalls
    /\ controlCalls' = controlCalls + 1
    /\ SetControl(disable(Control))
    /\ lastCall' = ControlCall("disable", FALSE, disable(Control))
    /\ disabledAt' = IF m_isInterruptAttached /\ m_irPin # -1 /\ m_rawTransitionIndex > 0
                     THEN now ELSE disabledAt
    /\ UNCHANGED <<m_finalResultCode, pc, localTransitions, envVars,
                   enabledAt, everDrained, drainedUpTo, harness>>

(***************************************************************************)
(* The edge interrupt                                                      *)
(***************************************************************************)
\* faulty variant: the handler does not test the write index against the
\* capacity of the array
HandleIrInterrupt_NoBound(t, level) ==
    LET currentState == IF m_irPin = IR_RECEIVER_PIN THEN level ELSE HIGH
        timeValue == RawTransition(t, currentState = LOW /\ m_lastPinState = HIGH)
    IN  IF currentState # m_lastPinState
        THEN /\ m_rawTransitions' =
                   Append(LivePrefix(m_rawTransitions, m_rawTransitionIndex), timeValue)
             /\ m_rawTransitionIndex' = m_rawTransitionIndex + 1
             /\ m_lastPinState' = currentState
             /\ m_lastTransitionMillis' = t \div 1000
        ELSE UNCHANGED isrVars

\* faulty variant: with the array full the handler stores no entry but still
\* notes the direction and the time of the edge
HandleIrInterrupt_FullNotesEdge(t, level) ==
    LET currentState == IF m_irPin = IR_RECEIVER_PIN THEN level ELSE HIGH
        timeValue == RawTransition(t, currentState = LOW /\ m_lastPinState = HIGH)
    IN  IF currentState # m_lastPinState
        THEN /\ m_rawTransitions' =
                   IF m_rawTransitionIndex < IR_LIB_MAX_TRANSITIONS
                   THEN Append(LivePrefix(m_rawTransitions, m_rawTransitionIndex), timeValue)
                   ELSE m_rawTransitions
             /\ m_rawTransitionIndex' =
                   IF m_rawTransitionIndex < IR_LIB_MAX_TRANSITIONS
                   THEN m_rawTransitionIndex + 1 ELSE m_rawTransitionIndex
             /\ m_lastPinState' = currentState
             /\ m_lastTransitionMillis' = t \div 1000
        ELSE UNCHANGED isrVars

\* handleIrInterrupt_priv, run at the (new) time t us with the line at level
HandleIrInterrupt(t, level) ==
    LET currentTimeMicros == t
        currentState == IF m_irPin = IR_RECEIVER_PIN THEN level ELSE HIGH
        timeValue == RawTransition(currentTimeMicros,
                                   currentState = LOW /\ m_lastPinState = HIGH)
    IN  IF currentState # m_lastPinState /\ m_rawTransitionIndex < IR_LIB_MAX_TRANSITIONS
        THEN /\ m_rawTransitions' =
                   Append(LivePrefix(m_rawTransitions, m_rawTransitionIndex), timeValue)
             /\ m_rawTransitionIndex' = m_rawTransitionIndex + 1
             /\ m_lastPinState' = currentState
             /\ m_lastTransitionMillis' = t \div 1000
        ELSE UNCHANGED isrVars

\* the line changes level d us after the previous event; the handler runs
\* when the interrupt is attached to the receiver's pin
Transition(d) ==
    /\ pc = "idle" \/ edgesInCall < MaxEdgesInCall
    /\ edgesInCall' = IF pc = "idle" THEN 0 ELSE edgesInCall + 1
    /\ now' = now + d
    /\ pinLevel' = IF pinLevel = HIGH THEN LOW ELSE HIGH
    /\ IF IR_RECEIVER_PIN \in attachedPins
       THEN HandleIrInterrupt(now + d, IF pinLevel = HIGH THEN LOW ELSE HIGH)
       ELSE UNCHANGED isrVars
    /\ UNCHANGED <<m_irPin, m_rawBurstCopied, m_finalResultCode, m_codeResultIsReady,
                   m_isInterruptAttached, pc, localTransitions, attachedPins, ticks,
                   controlCalls, lastCall, histVars, harness>>

\* the remote starts a burst
StartBurst ==
    /\ burst = << >>
    /\ burstsSent < MaxBursts
    /\ LET script == ScriptOf(burstsSent)
       IN  /\ burst' = Tail(script)
           /\ Transition(Head(script))
    /\ burstsSent' = burstsSent + 1

\* the next edge of the burst under way
Edge ==
    /\ burst # << >>
    /\ burst' = Tail(burst)
    /\ Transition(Head(burst))
    /\ UNCHANGED burstsSent

\* the line stays idle for more than the idle timeout after a burst.  The
\* code compares idle time with the timeout only, so one period stands for
\* every longer one.  isCode() reads the clock only in its first step, so
\* idle time is taken between calls.
Tick ==
    /\ pc = "idle"
    /\ burst = << >>
    /\ ticks < burstsSent
    /\ ticks' = ticks + 1
    /\ now' = now + TickUs
    /\ UNCHANGED <<objVars, pc, localTransitions, attachedPins, pinLevel, burst,
                   burstsSent, edgesInCall, controlCalls, lastCall, histVars, harness>>

(***************************************************************************)
(* isCode() and getCode()                                                  *)
(***************************************************************************)
\* line 131: the test that decides to take a snapshot
IdleTimeoutElapsed ==
    UnsignedDiffExceeds(millis, m_lastTransitionMillis, IR_LIB_IDLE_TIMEOUT_MS)

ShouldDrain ==
    m_rawTransitionIndex > 0 /\ IdleTimeoutElapsed /\ ~m_rawBurstCopied

\* faulty variant: a pending result does not stop isCode() from going on
ReturnsAtOnce_DetachedOnly == ~m_isInterruptAttached

\* faulty variant: the early returns answer true
ReturnAtOnceValue_True == TRUE

\* lines 122-129: the calls that return at once
ReturnsAtOnce == ~m_isInterruptAttached \/ m_codeResultIsReady

\* lines 123-124 and 128: the value they return
ReturnAtOnceValue == m_codeResultIsReady

\* lines 122-131 and 164-167: everything up to cli(), or the whole call when
\* no snapshot is taken
IsCodeCheck ==
    /\ pc = "idle"
    /\ IF ReturnsAtOnce
       THEN /\ lastCall' = Call("isCode", ReturnAtOnceValue, EmptyFrame)
            /\ UNCHANGED <<pc, m_rawBurstCopied>>
       ELSE IF ShouldDrain
       THEN /\ pc' = "drain"
            /\ UNCHANGED <<lastCall, m_rawBurstCopied>>
       ELSE /\ m_rawBurstCopied' =
                  IF m_rawTransitionIndex = 0 /\ m_rawBurstCopied
                  THEN FALSE ELSE m_rawBurstCopied
            /\ lastCall' = Call("isCode", FALSE, EmptyFrame)
            /\ UNCHANGED pc
    /\ UNCHANGED <<m_irPin, isrVars, m_finalResultCode, m_codeResultIsReady,
                   m_isInterruptAttached, localTransitions, attachedPins, envVars, controlCalls,
                   histVars, harness>>

\* faulty variant: the critical section copies and leaves the buffer as it is
IsCodeDrain_KeepsIndex ==
    /\ pc = "drain"
    /\ localTransitions' = SubSeq(m_rawTransitions, 1, m_rawTransitionIndex)
    /\ pc' = "process"
    /\ everDrained' = TRUE
    /\ drainedUpTo' = TimeOf(m_rawTransitions[m_rawTransitionIndex])
    /\ UNCHANGED <<m_irPin, isrVars, m_rawBurstCopied, m_finalResultCode,
                   m_codeResultIsReady, m_isInterruptAttached, attachedPins, envVars,
                   controlCalls, lastCall, enabledAt, disabledAt, harness>>

\* lines 132-141: the critical section, cli() to sei().  The interrupt is
\* masked from cli() to sei(), so the handler runs before or after: one step.
IsCodeDrain ==
    /\ pc = "drain"
    /\ LET capturedCount == IF m_rawTransitionIndex > IR_LIB_MAX_TRANSITIONS
                            THEN IR_LIB_MAX_TRANSITIONS ELSE m_rawTransitionIndex
       IN  localTransitions' = SubSeq(m_rawTransitions, 1, capturedCount)
    /\ m_rawTransitionIndex' = 0
    /\ m_rawTransitions' = LivePrefix(m_rawTransitions, 0)
    /\ pc' = "process"
    /\ everDrained' = TRUE
    /\ drainedUpTo' = TimeOf(m_rawTransitions[m_rawTransitionIndex])
    /\ UNCHANGED <<m_irPin, m_lastTransitionMillis, m_lastPinState,
                   m_rawBurstCopied, m_finalResultCode, m_codeResultIsReady,
                   m_isInterruptAttached, attachedPins, envVars, controlCalls, lastCall,
                   enabledAt, disabledAt, harness>>

\* faulty variant: the processing reads the shared buffer, not the snapshot
IsCodeProcess_ReadsBuffer ==
    /\ pc = "process"
    /\ \E pairs \in {processRawTransitionsToPairs(
                          LivePrefix(m_rawTransitions, m_rawTransitionIndex))} :
       \E a \in {analyzeAndDecodeBurst(pairs)} :
           IF Len(pairs) > 0
           THEN /\ m_rawBurstCopied' = TRUE
                /\ m_finalResultCode' = a.m_finalResultCode
                /\ m_codeResultIsReady' = a.m_codeResultIsReady
           ELSE /\ m_rawBurstCopied' = FALSE
                /\ UNCHANGED <<m_finalResultCode, m_codeResultIsReady>>
    /\ lastCall' = Call("isCode", m_codeResultIsReady', EmptyFrame)
    /\ localTransitions' = << >>
    /\ pc' = "idle"
    /\ disabledAt' = 0
    /\ enabledAt' = 0
    /\ edgesInCall' = 0
    /\ UNCHANGED <<m_irPin, isrVars, m_isInterruptAttached, attachedPins, now, pinLevel,
                   burst, burstsSent, ticks, controlCalls, everDrained, drainedUpTo,
                   harness>>

\* lines 143-163: the snapshot is turned into pairs and analysed
IsCodeProcess ==
    /\ pc = "process"
    /\ \E pairs \in {processRawTransitionsToPairs(localTransitions)} :
       \E a \in {analyzeAndDecodeBurst(pairs)} :
           IF Len(pairs) > 0
           THEN /\ m_rawBurstCopied' = TRUE
                /\ m_finalResultCode' = a.m_finalResultCode
                /\ m_codeResultIsReady' = a.m_codeResultIsReady
           ELSE /\ m_rawBurstCopied' = FALSE
                /\ UNCHANGED <<m_finalResultCode, m_codeResultIsReady>>
    /\ lastCall' = Call("isCode", m_codeResultIsReady', EmptyFrame)
    /\ localTransitions' = << >>
    /\ pc' = "idle"
    /\ disabledAt' = 0
    /\ enabledAt' = 0
    /\ edgesInCall' = 0
    /\ UNCHANGED <<m_irPin, isrVars, m_isInterruptAttached, attachedPins, now, pinLevel,
                   burst, burstsSent, ticks, controlCalls, everDrained, drainedUpTo,
                   harness>>

\* faulty variant: getCode() returns the stored frame, pending or not
getCodeValue_Stale(ready, final) == final

\* lines 171-177: the value getCode() returns
getCodeValue(ready, final) == IF ready THEN final ELSE DecodedIR(UNKNOWN, -1, -1)

GetCode ==
    /\ pc = "idle"
    /\ lastCall' = Call("getCode", FALSE, getCodeValue(m_codeResultIsReady, m_finalResultCode))
    /\ m_codeResultIsReady' = IF m_codeResultIsReady THEN FALSE ELSE m_codeResultIsReady
    /\ UNCHANGED <<m_irPin, isrVars, m_rawBurstCopied, m_finalResultCode,
                   m_isInterruptAttached, pc, localTransitions, attachedPins, envVars, controlCalls,
                   histVars, harness>>

Next ==
    \/ \E pin \in TestPins : Begin(pin)
    \/ Enable
    \/ Disable
    \/ IsCodeCheck
    \/ IsCodeDrain
    \/ IsCodeProcess
    \/ GetCode
    \/ StartBurst
    \/ Edge
    \/ Tick

Spec == Init /\ [][Next]_vars

(***************************************************************************)
(* The polling sketch: one begin() on the receiver's pin, then isCode()    *)
(* and getCode() for ever, no enable() and no disable().  loop() runs      *)
(* again whenever it returns, so a call that stays possible is made.       *)
(***************************************************************************)
Setup ==
    /\ controlCalls = 0
    /\ Begin(IR_RECEIVER_PIN)

Poll == IsCodeCheck \/ IsCodeDrain \/ IsCodeProcess

NextLive ==
    \/ Setup
    \/ Poll
    \/ GetCode
    \/ StartBurst
    \/ Edge
    \/ Tick

LiveSpec ==
    /\ Init /\ [][NextLive]_vars
    /\ WF_vars(IsCodeCheck) /\ WF_vars(IsCodeDrain) /\ WF_vars(IsCodeProcess)
    /\ WF_vars(GetCode)

(***************************************************************************)
(* A held button: begin() on the receiver's pin, then one burst of more    *)
(* edges than the array holds, polled by isCode() and getCode() throughout.*)
(* enable() and disable() are called while the line is quiet or the array  *)
(* is about to fill.                                                       *)
(***************************************************************************)
HoldButton ==
    /\ m_isInterruptAttached
    /\ burst = << >>
    /\ burstsSent = 0
    /\ burst' = Tail(HeldScript)
    /\ Transition(Head(HeldScript))
    /\ burstsSent' = burstsSent + 1

ControlPoint ==
    /\ controlCalls > 0
    /\ \/ burst = << >>
       \/ m_rawTransitionIndex >= IR_LIB_MAX_TRANSITIONS - 1

EnableHeld == ControlPoint /\ Enable

DisableHeld == ControlPoint /\ Disable

NextOverflow ==
    \/ Setup
    \/ EnableHeld
    \/ DisableHeld
    \/ HoldButton
    \/ Edge
    \/ Tick
    \/ Poll
    \/ GetCode

OverflowSpec == Init /\ [][NextOverflow]_vars

(***************************************************************************)
(* The analysis on synthetic bursts: a burst of pairs is handed to         *)
(* _analyzeAndDecodeBurst and the outcome is noted; the receiver itself    *)
(* stays as constructed.                                                   *)
(***************************************************************************)
benchFrame == <<objVars, pc, localTransitions, attachedPins, envVars, controlCalls,
                lastCall, histVars>>

\* the bytes the NEC frames are made of: 0 .. 0xFF
MaxByte == 255
Bytes == 0..MaxByte

\* bit k of the byte b, bit 0 the least significant
RECURSIVE BitOf(_, _)
BitOf(b, k) == IF k = 0 THEN b % 2 ELSE BitOf(b \div 2, k - 1)

\* (uint8_t)~b
Inverse(b) == MaxByte - b

\* the pairs of an NEC frame sent with pulses of bitPulse us: the preamble
\* and 32 data pairs for the bytes a, ~a, c, ~c, each least significant bit
\* first
NecBytes(bytes, bitPulse) ==
    <<PulseSpacePair(NEC_PREAMBLE_PULSE, NEC_PREAMBLE_SPACE)>>
    \o [k \in 1..(NEC_INITIAL_BITS - 1) |->
          PulseSpacePair(bitPulse,
                         IF BitOf(bytes[((k - 1) \div 8) + 1], (k - 1) % 8) = 1
                         THEN NEC_ONE_SPACE ELSE NEC_ZERO_SPACE)]

NecFrameOf(a, c, bitPulse) == NecBytes(<<a, Inverse(a), c, Inverse(c)>>, bitPulse)

NecFrame(a, c) == NecFrameOf(a, c, NEC_BIT_PULSE)

NecInit ==
    /\ Constructed
    /\ harness \in {[op |-> "input", address |-> a, command |-> c] :
                       a \in Bytes, c \in Bytes}

FeedNec ==
    /\ harness.op = "input"
    /\ harness' = [op |-> "nec", address |-> harness.address, command |-> harness.command,
                   out |-> analyzeAndDecodeBurst(NecFrame(harness.address,
                                                          harness.command))]
    /\ UNCHANGED benchFrame

NecSpec == NecInit /\ [][FeedNec]_vars

\* the commands and the addresses of SONY frames: 0 .. 0x7F and 0 .. 0x1F
MaxSonyCommand == 127
MaxSonyAddress == 31

\* the pairs of a SONY frame sent with pulses of zeroPulse and onePulse us:
\* the preamble and 12 data pairs, the 7 bits of the command c and the 5 bits
\* of the address a, each least significant bit first; lastSpace is the
\* space after the last pulse
SonyFrameOf(c, a, lastSpace, zeroPulse, onePulse) ==
    <<PulseSpacePair(SONY_PREAMBLE_PULSE, SONY_PREAMBLE_SPACE)>>
    \o [k \in 1..(SONY_INITIAL_BITS - 1) |->
          PulseSpacePair(IF (IF k <= 7 THEN BitOf(c, k - 1) ELSE BitOf(a, k - 8)) = 1
                         THEN onePulse ELSE zeroPulse,
                         IF k = SONY_INITIAL_BITS - 1 THEN lastSpace ELSE SONY_BIT_SPACE)]

SonyFrame(c, a, lastSpace) ==
    SonyFrameOf(c, a, lastSpace, SONY_ZERO_PULSE, SONY_ONE_PULSE)

SonyInit ==
    /\ Constructed
    /\ harness \in {[op |-> "input", address |-> a, command |-> c, lastSpace |-> l] :
                       a \in 0..MaxSonyAddress, c \in 0..MaxSonyCommand,
                       l \in {SONY_BIT_SPACE, MISSING}}

FeedSony ==
    /\ harness.op = "input"
    /\ harness' = [op |-> "sony", address |-> harness.address,
                   command |-> harness.command, lastSpace |-> harness.lastSpace,
                   out |-> analyzeAndDecodeBurst(
                              SonyFrame(harness.command, harness.address,
                                        harness.lastSpace))]
    /\ UNCHANGED benchFrame

SonySpec == SonyInit /\ [][FeedSony]_vars

\* the pairs of a JVC frame sent with pulses of bitPulse us: the preamble and
\* 16 data pairs, the address a and the command c, each least significant
\* bit first
JvcFrameOf(a, c, bitPulse) ==
    <<PulseSpacePair(JVC_PREAMBLE_PULSE, JVC_PREAMBLE_SPACE)>>
    \o [k \in 1..(JVC_INITIAL_BITS - 1) |->
          PulseSpacePair(bitPulse,
                         IF BitOf(<<a, c>>[((k - 1) \div 8) + 1], (k - 1) % 8) = 1
                         THEN JVC_ONE_SPACE ELSE JVC_ZERO_SPACE)]

\* Pulses that are no bit pulse of any protocol: outside 526 +/- 200,
\* 563 +/- 200, 600 +/- 200 and 1200 +/- 200, the nearest ones included.
NoisePulses == {100, 325, 801, 999, 1401, 2400}

\* frames of the three protocols sent with noise pulses for the bit pulses
NoiseBursts ==
    {SonyFrameOf(21, 1, MISSING, p, q) : p \in NoisePulses, q \in NoisePulses}
    \cup {NecFrameOf(0, 12, p) : p \in NoisePulses}
    \cup {JvcFrameOf(3, 12, p) : p \in NoisePulses}

\* the edges of a burst of pairs, as the times between them: the lead-in,
\* then pulse, space, pulse, ... up to the last pulse
ScriptOfPairs(pairs) ==
    <<LeadInUs>>
    \o [k \in 1..(2 * Len(pairs) - 1) |->
          IF k % 2 = 1 THEN pairs[(k + 1) \div 2].pulse ELSE pairs[k \div 2].space]

(***************************************************************************)
(* Noise: the polling sketch, and a remote whose bit pulses are noise      *)
(* pulses; the same burst is sent each time.                               *)
(***************************************************************************)
NoiseInit ==
    /\ Constructed
    /\ harness \in {[op |-> "noise", pairs |-> b] : b \in NoiseBursts}

SendBurst ==
    /\ m_isInterruptAttached
    /\ burst = << >>
    /\ burstsSent < MaxBursts
    /\ burst' = Tail(ScriptOfPairs(harness.pairs))
    /\ Transition(Head(ScriptOfPairs(harness.pairs)))
    /\ burstsSent' = burstsSent + 1

NextRemote ==
    \/ Setup
    \/ SendBurst
    \/ Edge
    \/ Tick
    \/ Poll
    \/ GetCode

NoiseSpec == NoiseInit /\ [][NextRemote]_vars

(***************************************************************************)
(* A remote that sends NEC frames whose fourth byte is not the inverse of  *)
(* the third, with the stop pulse that ends an NEC frame.                  *)
(***************************************************************************)
MismatchBytes ==
    {<<a, a2, c, c2>> : a \in {0, 5}, a2 \in {1, Inverse(0), Inverse(5)},
                        c \in {12, 200}, c2 \in {0, 12, MaxByte}}
    \ {b \in Bytes \X Bytes \X Bytes \X Bytes : b[3] + b[4] = MaxByte}

MismatchInit ==
    /\ Constructed
    /\ harness \in {[op |-> "mismatch", bytes |-> b,
                      pairs |-> NecBytes(b, NEC_BIT_PULSE)
                                \o <<PulseSpacePair(NEC_BIT_PULSE, MISSING)>>] :
                       b \in MismatchBytes}

MismatchSpec == MismatchInit /\ [][NextRemote]_vars

(***************************************************************************)
(* The pair extractor on two edges: the first at the clock value previous, *)
(* the second elapsed us later, the clock being micros() & TIME_VALUE_MASK *)
(* and wrapping to 0 after TIME_VALUE_MASK.                                *)
(***************************************************************************)
ClockValues ==
    {0, 1, 2, 600, 1200, 100000, 1073741824, TIME_VALUE_MASK - 100000, TIME_VALUE_MASK - 600,
     TIME_VALUE_MASK - 2, TIME_VALUE_MASK - 1, TIME_VALUE_MASK}

\* (previous + elapsed) & TIME_VALUE_MASK
ClockAfter(previous, elapsed) ==
    IF elapsed > TIME_VALUE_MASK - previous
    THEN elapsed - (TIME_VALUE_MASK - previous) - 1
    ELSE previous + elapsed

DeltaInit ==
    /\ Constructed
    /\ harness \in {[op |-> "edges", previous |-> p, elapsed |-> e] :
                       p \in ClockValues, e \in ClockValues}

FeedEdges ==
    /\ harness.op = "edges"
    /\ harness' = [op |-> "pairs", previous |-> harness.previous,
                   elapsed |-> harness.elapsed,
                   current |-> ClockAfter(harness.previous, harness.elapsed),
                   out |-> processRawTransitionsToPairs(
                              <<RawTransition(harness.previous, TRUE),
                                RawTransition(ClockAfter(harness.previous, harness.elapsed),
                                              FALSE)>>)]
    /\ UNCHANGED benchFrame

DeltaSpec == DeltaInit /\ [][FeedEdges]_vars

(***************************************************************************)
(* The pair extractor on snapshots of every size the drain can copy:       *)
(* capturedCount edges, one every gap us.                                  *)
(***************************************************************************)
SnapshotGaps == {SONY_BIT_SPACE, IR_LIB_IDLE_TIMEOUT_MS * 1000 + 1}

EvenSnapshot(capturedCount, gap) ==
    [k \in 1..capturedCount |-> RawTransition(k * gap, k % 2 = 1)]

ExtractInit ==
    /\ Constructed
    /\ harness \in {[op |-> "snapshot", capturedCount |-> n, gap |-> g] :
                       n \in 0..IR_LIB_MAX_TRANSITIONS, g \in SnapshotGaps}

Extract ==
    /\ harness.op = "snapshot"
    /\ harness' = [op |-> "extracted", capturedCount |-> harness.capturedCount,
                   gap |-> harness.gap,
                   out |-> processRawTransitionsToPairs(
                              EvenSnapshot(harness.capturedCount, harness.gap))]
    /\ UNCHANGED benchFrame

ExtractSpec == ExtractInit /\ [][Extract]_vars

(***************************************************************************)
(* The pair extractor on snapshots whose time differences are all          *)
(* different: difference i is first + i us, i = 1 .. capturedCount - 1.    *)
(***************************************************************************)
\* the first differences: a bit time, and the two that bring the greatest
\* difference of a full snapshot to the idle timeout and one past it
FirstDeltas ==
    {SONY_BIT_SPACE,
     IR_LIB_IDLE_TIMEOUT_MS * 1000 - IR_LIB_MAX_TRANSITIONS + 1,
     IR_LIB_IDLE_TIMEOUT_MS * 1000 - IR_LIB_MAX_TRANSITIONS + 2}

\* entry k (from 1) is at first * (k-1) + 1 + 2 + ... + (k-1)
RampSnapshot(capturedCount, first) ==
    [k \in 1..capturedCount |->
        RawTransition(first * (k - 1) + ((k - 1) * k) \div 2, k % 2 = 1)]

RampInit ==
    /\ Constructed
    /\ harness \in {[op |-> "ramp", capturedCount |-> n, first |-> f] :
                       n \in 0..IR_LIB_MAX_TRANSITIONS, f \in FirstDeltas}

ExtractRamp ==
    /\ harness.op = "ramp"
    /\ harness' = [op |-> "ramped", capturedCount |-> harness.capturedCount,
                   first |-> harness.first,
                   out |-> processRawTransitionsToPairs(
                              RampSnapshot(harness.capturedCount, harness.first))]
    /\ UNCHANGED benchFrame

RampSpec == RampInit /\ [][ExtractRamp]_vars

(***************************************************************************)
(* The segments of the scorer and of the decoding loop, on a held button:  *)
(* the frame of a brand, then up to MaxRepeats more a repeat delay apart.  *)
(* A frame is its data pairs and its last pulse, after zero or one leading *)
(* pair: a preamble, or a glitch of the line.                              *)
(***************************************************************************)
MaxRepeats == 2

WithLastSpace(pairs, space) == [pairs EXCEPT ![Len(pairs)].space = space]

\* the pairs of a frame after its preamble
FrameData(brand) ==
    IF brand = SONY THEN Tail(SonyFrame(21, 1, MISSING))
    ELSE IF brand = JVC
    THEN Tail(JvcFrameOf(3, 12, JVC_BIT_PULSE)) \o <<PulseSpacePair(JVC_BIT_PULSE, MISSING)>>
    ELSE Tail(NecFrame(3, 12)) \o <<PulseSpacePair(NEC_BIT_PULSE, MISSING)>>

\* what a frame of the brand can start with
LeadPairs(brand) ==
    {<< >>,
     <<PulseSpacePair(TIMING_TOLERANCE \div 2, TIMING_TOLERANCE \div 2)>>,
     <<PulseSpacePair(TIMING_TOLERANCE, TIMING_TOLERANCE)>>}
    \cup (IF brand = SONY
          THEN {<<PulseSpacePair(SONY_PREAMBLE_PULSE, SONY_PREAMBLE_SPACE)>>}
          ELSE IF brand = JVC
          THEN {<<PulseSpacePair(JVC_PREAMBLE_PULSE, JVC_PREAMBLE_SPACE)>>}
          ELSE {<<PulseSpacePair(NEC_PREAMBLE_PULSE, NEC_PREAMBLE_SPACE)>>,
                <<PulseSpacePair(NEC_REPEAT_PREAMBLE_PULSE, NEC_REPEAT_PREAMBLE_SPACE)>>})

RECURSIVE HeldFrames(_, _, _, _)
HeldFrames(brand, firstLead, lead, repeats) ==
    IF repeats = 0 THEN firstLead \o FrameData(brand)
    ELSE WithLastSpace(HeldFrames(brand, firstLead, lead, repeats - 1),
                       RepeatDelayOf(brand))
         \o lead \o FrameData(brand)

SegmentInit ==
    /\ Constructed
    /\ harness \in UNION {{[op |-> "held", pairs |-> HeldFrames(b, f, l, r)] :
                              f \in LeadPairs(b), l \in LeadPairs(b),
                              r \in 0..MaxRepeats} :
                            b \in {JVC, SONY, NEC}}

\* the segments of a walk over the pairs: the pairs that end a segment, and
\* of the pairs that start one those taken as a preamble
Segments(ends, preambles) == [ends |-> ends, preambles |-> preambles]

\* scoring, the choice of the brand, and the two walks of the winning brand
SegmentBurst ==
    /\ harness.op = "held"
    /\ \E pairs \in {harness.pairs} :
       \E w \in {WinningBrand(BrandScores(pairs), 1, 0, UNKNOWN)} :
          harness' =
            [op |-> "segmented", pairs |-> pairs, winningBrand |-> w,
             scorer |->
               IF w = UNKNOWN THEN Segments({}, {})
               ELSE Segments(ScoreSegmentEnds(w, pairs),
                             {s \in {SegmentStart(ScoreSegmentEnds(w, pairs), e) :
                                        e \in ScoreSegmentEnds(w, pairs)} :
                                 ScorePreamble(w, pairs, s, s = 1)}),
             decoder |->
               IF w = UNKNOWN THEN Segments({}, {})
               ELSE Segments(DecodeSegmentEnds(w, pairs),
                             {s \in {SegmentStart(DecodeSegmentEnds(w, pairs), e) :
                                        e \in DecodeSegmentEnds(w, pairs)} :
                                 DataStart(w, pairs, s) = 1})]
    /\ UNCHANGED benchFrame

SegmentSpec == SegmentInit /\ [][SegmentBurst]_vars

(***************************************************************************)
(* decodeNECData on the data pairs of NEC frames that break off after      *)
(* any number of bits: the pair after the last good one has a pulse that   *)
(* is no bit pulse.                                                        *)
(***************************************************************************)
\* the four bytes of a frame: the second and the fourth are the inverse of
\* the byte before them, or not
FrameBytes ==
    {<<a, a2, c, c2>> : a \in {0, 5, MaxByte}, a2 \in {0, 1, 250, MaxByte},
                        c \in {12, 200}, c2 \in {12, 55, 243}}

\* the first bits data pairs of the frame, then a pair that stops the decoder
BrokenOffData(bytes, bits) ==
    SubSeq(Tail(NecBytes(bytes, NEC_BIT_PULSE)), 1, bits)
    \o <<PulseSpacePair(NEC_PREAMBLE_PULSE, NEC_ZERO_SPACE)>>

FieldInit ==
    /\ Constructed
    /\ harness \in {[op |-> "data", bytes |-> b, bits |-> n] :
                       b \in FrameBytes, n \in 0..(NEC_INITIAL_BITS - 1)}

DecodeFields ==
    /\ harness.op = "data"
    /\ harness' = [op |-> "fields", bytes |-> harness.bytes, bits |-> harness.bits,
                   out |-> decodeNECData(BrokenOffData(harness.bytes, harness.bits))]
    /\ UNCHANGED benchFrame

FieldSpec == FieldInit /\ [][DecodeFields]_vars

(***************************************************************************)
(* The space-coded bit loop on data pairs of JVC and NEC: count pairs      *)
(* whose bits follow a fixed pattern, all timings off by the same amount   *)
(* within the tolerance, the last space missing or not, and at most one    *)
(* pair with a defect: a pulse or a space out of tolerance, or no space.   *)
(***************************************************************************)
\* pairs handed to the decoder: up to two more than the bits of an NEC frame
MaxDataPairs == 34

\* bit k (from 1) of the pattern sent
PatternBit(k) == k % 3 = 1

NoDefect == [at |-> 0, kind |-> "none"]

Defects ==
    {NoDefect} \cup {[at |-> k, kind |-> d] : k \in {1, 9, 17, 33},
                                              d \in {"pulse", "space", "missing"}}

BitPulseOf(brand) == IF brand = JVC THEN JVC_BIT_PULSE ELSE NEC_BIT_PULSE
ZeroSpaceOf(brand) == IF brand = JVC THEN JVC_ZERO_SPACE ELSE NEC_ZERO_SPACE
OneSpaceOf(brand) == IF brand = JVC THEN JVC_ONE_SPACE ELSE NEC_ONE_SPACE
\* maxBitsToDecode of lines 696 and 724
MaxBitsOf(brand) == IF brand = JVC THEN 16 ELSE NEC_INITIAL_BITS - 1

SpaceCodedData(brand, count, offset, lastMissing, defect) ==
    [k \in 1..count |->
        PulseSpacePair(
            IF defect.at = k /\ defect.kind = "pulse"
            THEN BitPulseOf(brand) + TIMING_TOLERANCE + 1
            ELSE BitPulseOf(brand) + offset,
            IF k = count /\ lastMissing THEN MISSING
            ELSE IF defect.at = k /\ defect.kind = "missing" THEN MISSING
            ELSE IF defect.at = k /\ defect.kind = "space"
            THEN ZeroSpaceOf(brand) + TIMING_TOLERANCE + 1
            ELSE (IF PatternBit(k) THEN OneSpaceOf(brand) ELSE ZeroSpaceOf(brand))
                 + offset)]

SpaceCodedInit ==
    /\ Constructed
    /\ harness \in {[op |-> "pairs", brand |-> b, count |-> n, offset |-> o,
                      lastMissing |-> m, defect |-> d] :
                       b \in {JVC, NEC}, n \in 1..MaxDataPairs,
                       o \in {-TIMING_TOLERANCE, 0, TIMING_TOLERANCE},
                       m \in BOOLEAN, d \in Defects}

\* the bit loop and the frame made of its bits
DecodeSpaceCoded ==
    /\ harness.op = "pairs"
    /\ \E dataPairs \in {SpaceCodedData(harness.brand, harness.count, harness.offset,
                                         harness.lastMissing, harness.defect)} :
          harness' = [harness EXCEPT !.op = "bits"]
                     @@ [bits |-> SpaceBits(dataPairs, MaxBitsOf(harness.brand),
                                            BitPulseOf(harness.brand),
                                            ZeroSpaceOf(harness.brand),
                                            OneSpaceOf(harness.brand)),
                         out |-> IF harness.brand = NEC
                                 THEN decodeNECData(dataPairs).base
                                 ELSE decodeWinningSegment(JVC, dataPairs)]
    /\ UNCHANGED benchFrame

SpaceCodedSpec == SpaceCodedInit /\ [][DecodeSpaceCoded]_vars

(***************************************************************************)
(* The pulse-coded bit loop on SONY data pairs: count pairs whose bits     *)
(* follow a pattern or its complement, all pulses off by the same amount   *)
(* within the tolerance, every space the same, and at most one pair whose  *)
(* pulse is out of tolerance or missing.                                   *)
(***************************************************************************)
\* bit k (from 1) of the pattern sent, complemented or not
SonyPatternBit(k, complemented) == PatternBit(k) # complemented

\* the spaces tried: the bit space, none, the repeat delay, zero, a long one
SonySpaces == {SONY_BIT_SPACE, MISSING, SONY_REPEAT_DELAY, 0, 5000}

PulseCodedData(count, offset, space, complemented, defect) ==
    [k \in 1..count |->
        PulseSpacePair(
            IF defect.at = k /\ defect.kind = "pulse"
            THEN SONY_ZERO_PULSE + TIMING_TOLERANCE + 1
            ELSE IF defect.at = k /\ defect.kind = "missing" THEN MISSING
            ELSE (IF SonyPatternBit(k, complemented)
                  THEN SONY_ONE_PULSE ELSE SONY_ZERO_PULSE) + offset,
            space)]

PulseCodedInit ==
    /\ Constructed
    /\ harness \in {[op |-> "pulses", count |-> n, offset |-> o, space |-> sp,
                      complemented |-> c, defect |-> d] :
                       n \in 1..SONY_INITIAL_BITS,
                       o \in {-TIMING_TOLERANCE, 0, TIMING_TOLERANCE},
                       sp \in SonySpaces, c \in BOOLEAN,
                       d \in {NoDefect} \cup
                             {[at |-> k, kind |-> e] : k \in 1..SONY_INITIAL_BITS,
                                                       e \in {"pulse", "missing"}}}

\* the bit loop and the frame made of its bits
DecodePulseCoded ==
    /\ harness.op = "pulses"
    /\ \E dataPairs \in {PulseCodedData(harness.count, harness.offset, harness.space,
                                         harness.complemented, harness.defect)} :
          harness' = [harness EXCEPT !.op = "bits"]
                     @@ [bits |-> SonyBits(dataPairs, SONY_INITIAL_BITS - 1),
                         out |-> decodeWinningSegment(SONY, dataPairs)]
    /\ UNCHANGED benchFrame

PulseCodedSpec == PulseCodedInit /\ [][DecodePulseCoded]_vars

(***************************************************************************)
(* The structure test of the three scorers on a burst of one segment: no   *)
(* preamble or the preamble of one brand, then one to three data pairs     *)
(* with pulses and spaces alike or not, the last space present or missing. *)
(***************************************************************************)
\* data pairs of the segment
MaxStructurePairs == 3

StructurePulses == {600, 800, 1200}
StructureSpaces == {363, 563, 1689}

PreamblePair(brand) ==
    IF brand = SONY THEN PulseSpacePair(SONY_PREAMBLE_PULSE, SONY_PREAMBLE_SPACE)
    ELSE IF brand = JVC THEN PulseSpacePair(JVC_PREAMBLE_PULSE, JVC_PREAMBLE_SPACE)
    ELSE PulseSpacePair(NEC_PREAMBLE_PULSE, NEC_PREAMBLE_SPACE)

StructureData ==
    UNION {{[k \in 1..n |-> PulseSpacePair(pulses[k], spaces[k])] :
               pulses \in [1..n -> StructurePulses],
               spaces \in {sp \in [1..n -> StructureSpaces \cup {MISSING}] :
                              \A k \in 1..(n - 1) : sp[k] # MISSING}} :
           n \in 1..MaxStructurePairs}

StructureInit ==
    /\ Constructed
    /\ harness \in {[op |-> "segment", lead |-> b, data |-> d] :
                       b \in {UNKNOWN, SONY, JVC, NEC}, d \in StructureData}

\* the structure test of each scorer on the segment, and the scores
ScoreStructure ==
    /\ harness.op = "segment"
    /\ \E pairs \in {(IF harness.lead = UNKNOWN THEN <<>>
                        ELSE <<PreamblePair(harness.lead)>>) \o harness.data} :
          harness' = [harness EXCEPT !.op = "structure"]
                     @@ [point |-> [b \in {SONY, JVC, NEC} |->
                                       StructurePoint(b, pairs, 1, Len(pairs), TRUE)],
                         m_brandScores |-> BrandScores(pairs)]
    /\ UNCHANGED benchFrame

StructureSpec == StructureInit /\ [][ScoreStructure]_vars

(***************************************************************************)
(* One JVC frame of every address and command: the preamble, sixteen data  *)
(* pairs and the stop pulse.                                               *)
(***************************************************************************)
JvcFrame(a, c) ==
    JvcFrameOf(a, c, JVC_BIT_PULSE) \o <<PulseSpacePair(JVC_BIT_PULSE, MISSING)>>

JvcInit ==
    /\ Constructed
    /\ harness \in {[op |-> "input", address |-> a, command |-> c] :
                       a \in Bytes, c \in Bytes}

FeedJvc ==
    /\ harness.op = "input"
    /\ harness' = [op |-> "jvc", address |-> harness.address, command |-> harness.command,
                   out |-> analyzeAndDecodeBurst(JvcFrame(harness.address,
                                                          harness.command))]
    /\ UNCHANGED benchFrame

JvcSpec == JvcInit /\ [][FeedJvc]_vars

(***************************************************************************)
(* Frames cut short: the first pairs of a frame of one of the three        *)
(* brands, the last pulse without a space, analysed and then fetched with  *)
(* getCode().  The NEC frames carry address and command bytes with and     *)
(* without their inverses.                                                 *)
(***************************************************************************)
CutFrames ==
    {NecBytes(b, NEC_BIT_PULSE) \o <<PulseSpacePair(NEC_BIT_PULSE, MISSING)>> :
        b \in FrameBytes}
    \cup {JvcFrame(a, c) : a \in {0, 3, 12, MaxByte}, c \in {0, 3, 12, MaxByte}}
    \cup {SonyFrame(c, a, MISSING) : c \in {0, 21, MaxSonyCommand},
                                     a \in {0, 1, MaxSonyAddress}}

CutInit ==
    /\ Constructed
    /\ harness \in UNION {{[op |-> "cut", pairs |-> WithLastSpace(SubSeq(f, 1, n), MISSING)] :
                              n \in 1..Len(f)} : f \in CutFrames}

\* isCode() on the burst, then getCode()
FetchCut ==
    /\ harness.op = "cut"
    /\ \E out \in {analyzeAndDecodeBurst(harness.pairs)} :
          harness' = [op |-> "got", pairs |-> harness.pairs, out |-> out,
                      frame |-> getCodeValue(out.m_codeResultIsReady,
                                             out.m_finalResultCode)]
    /\ UNCHANGED benchFrame

CutSpec == CutInit /\ [][FetchCut]_vars

(***************************************************************************)
(* The two tolerance tests at their boundaries: every timing of the        *)
(* protocol tables with every tolerance the code passes, and every         *)
(* expected time up to MaxExpectedUs that is a multiple of 10 with the     *)
(* percentage tolerance.                                                   *)
(***************************************************************************)
MaxExpectedUs == 10000

ExpectedTimings ==
    {JVC_PREAMBLE_PULSE, JVC_PREAMBLE_SPACE, JVC_BIT_PULSE, JVC_ONE_SPACE,
     JVC_REPEAT_DELAY, JVC_REPEAT_PREAMBLE_PULSE,
     SONY_PREAMBLE_PULSE, SONY_ZERO_PULSE, SONY_ONE_PULSE, SONY_REPEAT_DELAY,
     NEC_PREAMBLE_PULSE, NEC_PREAMBLE_SPACE, NEC_BIT_PULSE, NEC_ONE_SPACE,
     NEC_REPEAT_DELAY, NEC_REPEAT_PREAMBLE_PULSE, NEC_REPEAT_PREAMBLE_SPACE}

Tolerances == {1, 2, TIMING_TOLERANCE, REPEAT_GAP_TOLERANCE}

ToleranceInit ==
    /\ Constructed
    /\ harness \in
          {[op |-> "absolute", expected |-> e, tolerance |-> t] :
              e \in ExpectedTimings, t \in Tolerances}
          \cup {[op |-> "percentage", expected |-> e] :
                   e \in {x \in 0..MaxExpectedUs : x % 10 = 0}}

CompareAbsolute ==
    /\ harness.op = "absolute"
    /\ \E e \in {harness.expected}, t \in {harness.tolerance} :
          harness' = [op |-> "compared", expected |-> e, tolerance |-> t,
                      out |-> [d \in {-t - 1, -t, 0, t, t + 1} |->
                                 isWithinTolerance(e + d, e, t)]]
    /\ UNCHANGED benchFrame

ComparePercentage ==
    /\ harness.op = "percentage"
    /\ \E e \in {harness.expected} :
          harness' = [op |-> "scaled", expected |-> e,
                      out |-> [c \in (MISSING..1) \cup ((e + e \div 10 - 1)..(e + e \div 10 + 1)) |->
                                 isWithinPercentageTolerance(c, e, PERCENTAGE_TOLERANCE)]]
    /\ UNCHANGED benchFrame

NextTolerance == CompareAbsolute \/ ComparePercentage

ToleranceSpec == ToleranceInit /\ [][NextTolerance]_vars

(***************************************************************************)
(* Button names                                                            *)
(***************************************************************************)
\* struct IrButton
Button(c, n) == [commandCode |-> c, name |-> n]

SCEPTRE_BUTTONS == <<
    Button(0, "sceptreOne"),
    Button(1, "sceptreTwo"),
    Button(2, "sceptreThree"),
    Button(3, "sceptreFour"),
    Button(4, "sceptreFive"),
    Button(5, "sceptreSix"),
    Button(6, "sceptreSeven"),
    Button(7, "sceptreEight"),
    Button(8, "sceptreNine"),
    Button(9, "sceptreZero"),
    Button(11, "sceptreEnter"),
    Button(16, "sceptreCh+"),
    Button(17, "sceptreCh-"),
    Button(18, "sceptreVol+"),
    Button(19, "sceptreVol-"),
    Button(20, "sceptreMute"),
    Button(21, "sceptrePower"),
    Button(22, "sceptreExit"),
    Button(24, "sceptreFav"),
    Button(35, "sceptreCc"),
    Button(36, "sceptreFavAdd"),
    Button(37, "sceptreSource"),
    Button(41, "sceptreStandard"),
    Button(46, "sceptrePwrOn"),
    Button(47, "sceptrePwrOff"),
    Button(51, "sceptreRight"),
    Button(52, "sceptreLeft"),
    Button(54, "sceptreSleep"),
    Button(57, "sceptreHdmi"),
    Button(60, "sceptreInfo"),
    Button(64, "sceptreAir"),
    Button(65, "sceptreAv"),
    Button(67, "sceptreHdmi3"),
    Button(68, "sceptreHdmi4"),
    Button(69, "sceptreYpbpr"),
    Button(72, "sceptreHdmi1"),
    Button(90, "sceptreUser"),
    Button(96, "sceptreMenu"),
    Button(98, "sceptreFull"),
    Button(99, "sceptreUsb"),
    Button(100, "sceptreFreeze"),
    Button(101, "sceptreGuide"),
    Button(110, "sceptreAir2"),
    Button(111, "sceptreAir3"),
    Button(116, "sceptreUp"),
    Button(117, "sceptreDown"),
    Button(123, "sceptreVoice") >>

JVC_BUTTONS == <<
    Button(0, "jvcPwr"),
    Button(1, "jvcVol+"),
    Button(2, "jvcVol-"),
    Button(13, "jvcAux") >>

NEC_BUTTONS == <<
    Button(0, "necPwr"),
    Button(16, "necPlay"),
    Button(19, "necStop"),
    Button(64, "nvcTray") >>

\* the digits itoa writes, least first
Digits == <<"0", "1", "2", "3", "4", "5", "6", "7", "8", "9">>

\* itoa(value, str, radix) for value >= 0 and radix <= 10: the digits of
\* value in the radix, most significant first.
RECURSIVE itoa(_, _)
itoa(value, radix) ==
    IF value < radix
    THEN Digits[value + 1]
    ELSE itoa(value \div radix, radix) \o Digits[(value % radix) + 1]

\* the array the switch of getButtonName selects; none for UNKNOWN
ButtonArray(brand) ==
    IF brand = SONY THEN SCEPTRE_BUTTONS
    ELSE IF brand = JVC THEN JVC_BUTTONS
    ELSE IF brand = NEC THEN NEC_BUTTONS
    ELSE << >>

UnknownPrefix(brand) ==
    IF brand = SONY THEN "SONY_CMD_"
    ELSE IF brand = JVC THEN "JVC_CMD_"
    ELSE IF brand = NEC THEN "NEC_CMD_"
    ELSE "CMD_"

\* the radix getButtonName passes to itoa
ButtonNameRadix == 6

\* the name of the first entry with the command code, else the prefix of
\* the brand followed by what itoa wrote
FirstMatch(buttonArray, commandCode) ==
    {i \in DOMAIN buttonArray :
        /\ buttonArray[i].commandCode = commandCode
        /\ \A j \in 1..(i - 1) : buttonArray[j].commandCode # commandCode}

getButtonName(brand, commandCode) ==
    The({IF found # {}
         THEN ButtonArray(brand)[The(found)].name
         ELSE UnknownPrefix(brand) \o itoa(commandCode, ButtonNameRadix) :
           found \in {FirstMatch(ButtonArray(brand), commandCode)}})

ButtonInit ==
    /\ Constructed
    /\ harness \in {[op |-> "button", brand |-> b, commandCode |-> c] :
                       b \in 0..(NUM_BRANDS - 1), c \in 0..MaxByte}

NameButton ==
    /\ harness.op = "button"
    /\ harness' = [op |-> "named", brand |-> harness.brand,
                   commandCode |-> harness.commandCode,
                   out |-> getButtonName(harness.brand, harness.commandCode)]
    /\ UNCHANGED benchFrame

ButtonSpec == ButtonInit /\ [][NameButton]_vars

(***************************************************************************)
(* Scoring and the choice of the winning brand, on frames of the three     *)
(* protocols and on bursts of data pairs without a preamble (what the      *)
(* receiver sees of a frame whose start it missed, or of a repeat frame    *)
(* sent without one).                                                      *)
(***************************************************************************)
MaxHeaderlessPairs == 34

\* n pairs of pulse p, every third space a long one, ended by a lone pulse
HeaderlessBurst(n, p, longSpace) ==
    [k \in 1..n |->
        PulseSpacePair(p, IF k = n THEN MISSING
                          ELSE IF k % 3 = 0 THEN longSpace ELSE JVC_ZERO_SPACE)]

ScoreBursts ==
    {HeaderlessBurst(n, p, l) :
        n \in 1..MaxHeaderlessPairs,
        p \in {JVC_BIT_PULSE, SONY_ZERO_PULSE, JVC_BIT_PULSE - TIMING_TOLERANCE - 1},
        l \in {JVC_ZERO_SPACE, JVC_ONE_SPACE}}
    \cup {JvcFrameOf(3, 12, JVC_BIT_PULSE) \o <<PulseSpacePair(JVC_BIT_PULSE, MISSING)>>,
          NecFrame(3, 12) \o <<PulseSpacePair(NEC_BIT_PULSE, MISSING)>>,
          SonyFrame(21, 1, MISSING)}

ScoreInit ==
    /\ Constructed
    /\ harness \in {[op |-> "burst", pairs |-> b] : b \in ScoreBursts}

\* _analyzeAndDecodeBurst on the pairs; winningBrand is its local of line 283
ScoreBurst ==
    /\ harness.op = "burst"
    /\ harness' = [op |-> "scored", pairs |-> harness.pairs,
                   winningBrand |-> WinningBrand(BrandScores(harness.pairs), 1, 0, UNKNOWN),
                   out |-> analyzeAndDecodeBurst(harness.pairs)]
    /\ UNCHANGED benchFrame

ScoreSpec == ScoreInit /\ [][ScoreBurst]_vars

(***************************************************************************)
(* A held SONY button: up to MaxFrames frames in one burst, a repeat delay *)
(* apart.  The frames at the positions in good are sent as they should be, *)
(* the others with bit pulses too short to be decoded.                     *)
(***************************************************************************)
MaxFrames == 12

RECURSIVE RepeatedFrames(_, _, _)
RepeatedFrames(i, count, good) ==
    IF i > count THEN << >>
    ELSE (IF i \in good
          THEN SonyFrame(21, 1, IF i = count THEN MISSING ELSE SONY_REPEAT_DELAY)
          ELSE SonyFrameOf(21, 1, IF i = count THEN MISSING ELSE SONY_REPEAT_DELAY,
                           SONY_ZERO_PULSE - TIMING_TOLERANCE - 1,
                           SONY_ZERO_PULSE - TIMING_TOLERANCE - 1))
         \o RepeatedFrames(i + 1, count, good)

FramesInit ==
    /\ Constructed
    /\ harness \in {[op |-> "frames", count |-> n, good |-> g] :
                       n \in 1..MaxFrames,
                       g \in {{}} \cup {{i} : i \in 1..MaxFrames}
                               \cup {(1..MaxFrames) \ {i} : i \in 0..MaxFrames}}

ProcessFrames ==
    /\ harness.op = "frames"
    /\ harness' = [op |-> "processed", count |-> harness.count, good |-> harness.good,
                   out |-> analyzeAndDecodeBurst(
                              RepeatedFrames(1, harness.count, harness.good))]
    /\ UNCHANGED benchFrame

FramesSpec == FramesInit /\ [][ProcessFrames]_vars

(***************************************************************************)
(* The vote: determineWinner on the decoded segments of a burst.  The      *)
(* segments of a burst have the winning brand; a segment is a frame and    *)
(* its checksum flag, which only decodeNECData sets.                       *)
(***************************************************************************)
MaxVoteSegments == 5

Segment(frame, checksumValid) == [frame |-> frame, checksumValid |-> checksumValid]

\* what a segment of the brand can decode to: two commands, a frame cut
\* short of its address or of its command, and for NEC both checksum states
SegmentValues(brand) ==
    IF brand = NEC
    THEN {Segment(DecodedIR(NEC, 12, 0), TRUE), Segment(DecodedIR(NEC, 12, 0), FALSE),
          Segment(DecodedIR(NEC, 13, 0), TRUE), Segment(DecodedIR(NEC, -1, 0), FALSE)}
    ELSE {Segment(DecodedIR(brand, 21, 1), FALSE), Segment(DecodedIR(brand, 22, 1), FALSE),
          Segment(DecodedIR(brand, 21, -1), FALSE), Segment(DecodedIR(brand, -1, -1), FALSE)}

VoteInit ==
    /\ Constructed
    /\ harness \in {[op |-> "segments", decoded |-> d] :
                       d \in UNION {[1..n -> SegmentValues(brand)] :
                                       n \in 1..MaxVoteSegments, brand \in {SONY, NEC}}}

Vote ==
    /\ harness.op = "segments"
    /\ harness' = [op |-> "vote", decoded |-> harness.decoded,
                   counts |-> CountGroups(
                              [k \in 1..Len(harness.decoded) |-> harness.decoded[k].frame],
                              [k \in 1..Len(harness.decoded) |->
                                  harness.decoded[k].checksumValid], 1, << >>),
                   out |-> determineWinner(
                              [k \in 1..Len(harness.decoded) |-> harness.decoded[k].frame],
                              [k \in 1..Len(harness.decoded) |->
                                  harness.decoded[k].checksumValid])]
    /\ UNCHANGED benchFrame

VoteSpec == VoteInit /\ [][Vote]_vars

(***************************************************************************)
(* Properties                                                              *)
(***************************************************************************)
\* C1: isCode() returns true exactly when m_codeResultIsReady is true after
\* the call, with the interrupt attached or detached.  (Every operation that
\* writes the flag after the call is an API call and replaces lastCall.)
C1_IsCodeReturnsReady ==
    lastCall.op = "isCode" => (lastCall.ret <=> m_codeResultIsReady)

\* isCode() has returned true on an attached receiver
C1_Witness ==
    /\ lastCall.op = "isCode"
    /\ lastCall.ret
    /\ m_isInterruptAttached

\* C2: getCode() returns the pending frame and clears the flag, so that the
\* next getCode() returns {UNKNOWN, -1, -1}; with nothing pending it returns
\* the empty frame and changes no state of the object.
C2_GetCodeTakesOnce ==
    [][GetCode =>
          IF m_codeResultIsReady
          THEN /\ lastCall'.frame = m_finalResultCode
               /\ ~m_codeResultIsReady'
          ELSE /\ lastCall'.frame = EmptyFrame
               /\ UNCHANGED objVars]_vars

\* getCode() has returned a frame, after which nothing is pending
C2_Witness ==
    /\ lastCall.op = "getCode"
    /\ lastCall.frame # EmptyFrame
    /\ ~m_codeResultIsReady

\* C3: while a result is pending the stored frame has a brand other than
\* UNKNOWN and a command other than -1; so a frame that getCode() returns
\* for a pending result has a known brand and a command >= 0.
C3_PendingFrameIsValid ==
    /\ m_codeResultIsReady =>
          /\ m_finalResultCode.brand # UNKNOWN
          /\ m_finalResultCode.command # -1
          /\ m_finalResultCode.command >= 0
    /\ lastCall.op = "getCode" /\ lastCall.frame # EmptyFrame =>
          /\ lastCall.frame.brand # UNKNOWN
          /\ lastCall.frame.command >= 0

\* a burst was analysed and its result is pending
C3_Witness ==
    /\ m_codeResultIsReady
    /\ lastCall.op = "isCode"
    /\ everDrained

\* a burst of at least two edges, recorded after an earlier burst was
\* drained, has been followed by more than the idle timeout of silence
LaterBurstWaits ==
    /\ m_isInterruptAttached
    /\ everDrained
    /\ burst = << >>
    /\ m_rawTransitionIndex >= 2
    /\ IdleTimeoutElapsed

\* C4: capture goes on after every burst: under the polling sketch (LiveSpec)
\* a later burst that waits in the buffer is eventually drained by isCode(),
\* whatever the timing of edges and calls.
C4_LaterBurstIsDrained == LaterBurstWaits ~> (m_rawTransitionIndex = 0)

\* C5: single-slot mailbox.  While a result is pending no step replaces the
\* stored frame or starts a drain, and isCode() returns true and changes
\* nothing in the object.
C5_PendingResultIsKept ==
    [][m_codeResultIsReady =>
          /\ m_finalResultCode' = m_finalResultCode
          /\ pc' = "idle"
          /\ IsCodeCheck =>
                /\ lastCall' = Call("isCode", TRUE, EmptyFrame)
                /\ UNCHANGED <<objVars, localTransitions>>]_vars

\* a result is pending, isCode() has returned true, and a whole later burst
\* waits in the buffer
C5_Witness ==
    /\ m_codeResultIsReady
    /\ lastCall = Call("isCode", TRUE, EmptyFrame)
    /\ burstsSent >= 2
    /\ burst = << >>
    /\ m_rawTransitionIndex >= 2
    /\ IdleTimeoutElapsed

\* C6: a result pending when disable() is called stays pending, with its
\* frame.
C6_DisableKeepsPendingResult ==
    [][Disable /\ m_codeResultIsReady =>
          /\ m_codeResultIsReady'
          /\ m_finalResultCode' = m_finalResultCode]_vars

\* C7: edges recorded before disable() are never drained after enable(): the
\* buffer and the snapshot hold only edges recorded after the last enable().
C7_SnapshotIsFresh ==
    /\ \A k \in 1..m_rawTransitionIndex : TimeOf(m_rawTransitions[k]) > enabledAt
    /\ \A k \in 1..Len(localTransitions) : TimeOf(localTransitions[k]) > enabledAt

\* disable() discarded recorded edges, enable() followed, and a snapshot of
\* later edges is being processed
C7_Witness ==
    /\ pc = "process"
    /\ disabledAt > 0
    /\ enabledAt >= disabledAt
    /\ Len(localTransitions) >= 2

\* C8: enable() with a pin set leaves the write index 0, burst-copied false
\* and no result pending, re-reads the idle-timer reference and the pin
\* level, and leaves the interrupt attached exactly when the pin supports
\* interrupts.
C8_EnableResets ==
    [][Enable /\ m_irPin # NO_PIN =>
          /\ m_rawTransitionIndex' = 0
          /\ ~m_rawBurstCopied'
          /\ ~m_codeResultIsReady'
          /\ m_lastTransitionMillis' = now \div 1000
          /\ m_lastPinState' = (IF m_irPin = IR_RECEIVER_PIN THEN pinLevel ELSE HIGH)
          /\ m_isInterruptAttached' <=> (digitalPinToInterrupt(m_irPin) # NOT_AN_INTERRUPT)
          /\ m_isInterruptAttached' <=> (m_irPin \in attachedPins')]_vars

\* enable() has dropped a pending result and attached the interrupt
C8_Witness ==
    /\ lastCall.op = "enable"
    /\ lastCall.dropped
    /\ m_isInterruptAttached
    /\ m_rawTransitionIndex = 0

\* C9: begin(pin) returns true exactly when the interrupt is attached on
\* return, for every pin value.
C9_BeginReturnsAttached ==
    lastCall.op = "begin" => (lastCall.ret <=> m_isInterruptAttached)

\* C10: while detached the ISR appends no edge (the write index stays 0) and
\* isCode() neither drains nor analyses, and returns false.
C10_DetachedIsQuiet ==
    ~m_isInterruptAttached =>
        /\ m_rawTransitionIndex = 0
        /\ pc = "idle"
        /\ lastCall.op = "isCode" => ~lastCall.ret

\* after a disable() that detached the receiver's pin the line has changed
\* level and isCode() was polled
C10_Witness ==
    /\ ~m_isInterruptAttached
    /\ m_irPin = IR_RECEIVER_PIN
    /\ pinLevel # m_lastPinState
    /\ lastCall.op = "isCode"

\* C11: the drain excludes the interrupt.  The snapshot is exactly the buffer
\* as it stood at cli(), the buffer is empty at sei(), every edge of the
\* snapshot is later than every edge of every earlier snapshot (an edge is
\* drained at most once), and no edge is in the snapshot and in the buffer.
C11_DrainIsExclusive ==
    [][/\ IsCodeDrain =>
             /\ localTransitions' = SubSeq(m_rawTransitions, 1, m_rawTransitionIndex)
             /\ m_rawTransitionIndex' = 0
             /\ \A k \in 1..Len(localTransitions') :
                   TimeOf(localTransitions'[k]) > drainedUpTo
       /\ \A j \in 1..Len(localTransitions') : \A k \in 1..m_rawTransitionIndex' :
             localTransitions'[j] # m_rawTransitions'[k]]_vars

\* a second snapshot has been taken, after an earlier one was decoded
C11_Witness ==
    /\ pc = "process"
    /\ m_finalResultCode # EmptyFrame
    /\ drainedUpTo > 0
    /\ Len(localTransitions) >= 2

\* C12: a snapshot is taken only of a burst that has been idle: at the drain
\* every edge copied was recorded more than IR_LIB_IDLE_TIMEOUT_MS before,
\* under every interleaving of the handler with isCode().
C12_SnapshotIsIdle ==
    [][IsCodeDrain =>
          \A k \in 1..Len(localTransitions') :
              now - TimeOf(localTransitions'[k]) > IR_LIB_IDLE_TIMEOUT_MS * 1000]_vars

\* C13: the write index, the last-direction flag and the last-edge timestamp
\* are written only by the interrupt handler.  Read with the most room: while
\* the interrupt is attached they change only in a step of the handler, in
\* the masked window of the drain, or in a call that detaches the interrupt
\* before it writes (disable() at line 106, begin() at lines 48-50).  (The
\* array itself is left out: the model drops the entries past the index,
\* which the code leaves in place.)
C13_OnlyHandlerWrites ==
    [][/\ m_isInterruptAttached
       /\ <<m_rawTransitionIndex, m_lastPinState, m_lastTransitionMillis>>'
             # <<m_rawTransitionIndex, m_lastPinState, m_lastTransitionMillis>>
       => \/ StartBurst \/ Edge \/ IsCodeDrain
          \/ Disable
          \/ \E pin \in TestPins : Begin(pin)]_vars

\* C14: the outcome of a processing step is a function of the snapshot: the
\* value returned and the pending flag are those of the analysis of the
\* snapshot, and the stored frame is the frame of that analysis (left as it
\* was when the snapshot yields no pair), whatever edges the handler has
\* recorded since the critical section ended.
C14_OutcomeIsOfSnapshot ==
    [][IsCodeProcess =>
          \E pairs \in {processRawTransitionsToPairs(localTransitions)} :
          \E a \in {analyzeAndDecodeBurst(pairs)} :
              /\ lastCall'.ret = a.m_codeResultIsReady
              /\ m_codeResultIsReady' = a.m_codeResultIsReady
              /\ m_finalResultCode' =
                    IF Len(pairs) > 0 THEN a.m_finalResultCode ELSE m_finalResultCode]_vars

\* a snapshot that decodes is about to be processed, and an edge has been
\* recorded since the critical section ended
C14_Witness ==
    /\ pc = "process"
    /\ edgesInCall = 1
    /\ m_rawTransitionIndex = 1
    /\ analyzeAndDecodeBurst(processRawTransitionsToPairs(localTransitions)).m_codeResultIsReady

\* C15: the write index stays within 0 .. IR_LIB_MAX_TRANSITIONS and the
\* handler stores no entry past the end of the array, while a burst longer
\* than the array arrives and the calls of the API interleave with it.
C15_IndexInBounds ==
    /\ 0 <= m_rawTransitionIndex
    /\ m_rawTransitionIndex <= IR_LIB_MAX_TRANSITIONS
    /\ Len(m_rawTransitions) <= IR_LIB_MAX_TRANSITIONS

\* the array is full and the burst has gone on past it
C15_Witness ==
    /\ m_rawTransitionIndex = IR_LIB_MAX_TRANSITIONS
    /\ burstsSent = 1
    /\ Len(burst) < MaxHeldEdges - IR_LIB_MAX_TRANSITIONS

\* C16: with IR_LIB_MAX_TRANSITIONS entries stored an edge leaves the entries,
\* the write index, the last direction and the last-edge time as they are;
\* the drain then copies all the stored entries, which are the first
\* IR_LIB_MAX_TRANSITIONS edges of the signal, and the processing step
\* decodes them as the burst cut there: the frame of the held button.
C16_FullBufferDropsEdges ==
    [][/\ (m_rawTransitionIndex = IR_LIB_MAX_TRANSITIONS /\ Edge) => UNCHANGED isrVars
       /\ (m_rawTransitionIndex = IR_LIB_MAX_TRANSITIONS /\ IsCodeDrain) =>
              /\ localTransitions' = m_rawTransitions
              /\ \A k \in 2..IR_LIB_MAX_TRANSITIONS :
                     TimeOf(localTransitions'[k]) - TimeOf(localTransitions'[k - 1])
                         = HeldScript[k]
       /\ (Len(localTransitions) = IR_LIB_MAX_TRANSITIONS /\ IsCodeProcess) =>
              /\ Len(processRawTransitionsToPairs(localTransitions))
                     = IR_LIB_MAX_TRANSITIONS \div 2
              /\ m_finalResultCode' = DecodedIR(SONY, 21, 1)
              /\ m_codeResultIsReady'
              /\ lastCall'.ret]_vars

C16_Witness ==
    /\ pc = "process"
    /\ Len(localTransitions) = IR_LIB_MAX_TRANSITIONS
    /\ burstsSent = 1
    /\ burst = << >>
    /\ m_rawTransitionIndex = 0

\* C17: the NEC frame of the address byte a and the command byte c is scored
\* highest for NEC and decoded to {NEC, address a, command c}, one segment,
\* its checksum valid, the result ready.
C17_NecFrameDecodes ==
    harness.op = "nec" =>
        /\ WinningBrand(harness.out.m_brandScores, 1, 0, UNKNOWN) = NEC
        /\ harness.out.m_decodedSegments = <<DecodedIR(NEC, harness.command, harness.address)>>
        /\ harness.out.segmentChecksums = <<TRUE>>
        /\ harness.out.m_finalResultCode = DecodedIR(NEC, harness.command, harness.address)
        /\ harness.out.m_codeResultIsReady

C17_Witness ==
    /\ harness.op = "nec"
    /\ harness.address = 0
    /\ harness.command = 12
    /\ harness.out.m_finalResultCode = DecodedIR(NEC, 12, 0)

\* C18: the SONY frame of the command c and the address a, its last space
\* 600 us or missing, is scored highest for SONY and decoded to
\* {SONY, address a, command c}, the result ready.
C18_SonyFrameDecodes ==
    harness.op = "sony" =>
        /\ WinningBrand(harness.out.m_brandScores, 1, 0, UNKNOWN) = SONY
        /\ harness.out.m_decodedSegments = <<DecodedIR(SONY, harness.command, harness.address)>>
        /\ harness.out.m_finalResultCode = DecodedIR(SONY, harness.command, harness.address)
        /\ harness.out.m_codeResultIsReady

C18_Witness ==
    /\ harness.op = "sony"
    /\ harness.command = 21
    /\ harness.address = 1
    /\ harness.lastSpace = MISSING
    /\ harness.out.m_finalResultCode = DecodedIR(SONY, 21, 1)

\* C19: while every burst is one whose bit pulses are noise pulses, no call
\* of isCode() returns true and no result is ever pending, whatever brand
\* the burst is scored as.  (Violated: a snapshot that starts at the second
\* edge of a burst has the spaces of the burst for its pulses.)
C19_NoiseGivesNoResult ==
    /\ ~m_codeResultIsReady
    /\ lastCall.op = "isCode" => ~lastCall.ret

\* how often the value v occurs among the segments
Occurrences(decoded, v) == Cardinality({k \in 1..Len(decoded) : decoded[k] = v})

\* C20: a value with a command (a frame without one is left out of the
\* vote) that occurs more often among the segments than every other such
\* value is the final result, wherever in the sequence its segments are.
C20_MajorityWins ==
    harness.op = "vote" =>
        \A k \in 1..Len(harness.decoded) :
            (/\ harness.decoded[k].frame.command # -1
             /\ \A j \in 1..Len(harness.decoded) :
                    (/\ harness.decoded[j].frame.command # -1
                     /\ harness.decoded[j] # harness.decoded[k])
                    => Occurrences(harness.decoded, harness.decoded[j])
                          < Occurrences(harness.decoded, harness.decoded[k]))
            => harness.out = harness.decoded[k].frame

\* B, A, A: the majority value is not the first segment
C20_Witness ==
    /\ harness.op = "vote"
    /\ Len(harness.decoded) = 3
    /\ harness.decoded[1] # harness.decoded[2]
    /\ harness.decoded[1].frame.command # -1
    /\ harness.decoded[2] = harness.decoded[3]
    /\ harness.out = harness.decoded[2].frame
    /\ harness.out.command # -1

\* C21: each voting group counts the segments that have its frame and, for
\* NEC, its checksum flag, and no others: two NEC segments with the same
\* address and command and different flags are in two groups.
C21_ChecksumSeparatesGroups ==
    harness.op = "vote" =>
        /\ \A g \in 1..Len(harness.counts) :
               harness.counts[g].count =
                  Occurrences(harness.decoded,
                              Segment(harness.counts[g].data,
                                      harness.counts[g].checksumValidForNEC))
        /\ \A g, h \in 1..Len(harness.counts) :
               g # h => <<harness.counts[g].data, harness.counts[g].checksumValidForNEC>>
                          # <<harness.counts[h].data, harness.counts[h].checksumValidForNEC>>

C21_Witness ==
    /\ harness.op = "vote"
    /\ harness.decoded = <<Segment(DecodedIR(NEC, 12, 0), TRUE),
                           Segment(DecodedIR(NEC, 12, 0), FALSE)>>
    /\ harness.counts = <<DecodedCount(DecodedIR(NEC, 12, 0), 1, TRUE),
                          DecodedCount(DecodedIR(NEC, 12, 0), 1, FALSE)>>

\* the pairs of a burst as the extractor makes them of all its edges: the
\* space after the last pulse is missing
AsCaptured(pairs) ==
    [k \in 1..Len(pairs) |->
        IF k = Len(pairs) THEN PulseSpacePair(pairs[k].pulse, MISSING) ELSE pairs[k]]

\* {NEC, third byte, address of the first two bytes}
MismatchFrame(bytes) ==
    DecodedIR(NEC, bytes[3],
              IF bytes[1] + bytes[2] = MaxByte THEN bytes[1]
              ELSE bytes[2] * 256 + bytes[1])

\* C22: the processing step on the edges of an NEC frame whose command
\* bytes fail the checksum returns true with the frame's command and
\* address pending, and getCode() then returns them.
C22_MismatchStillDecodes ==
    [][/\ (/\ IsCodeProcess
           /\ processRawTransitionsToPairs(localTransitions) = AsCaptured(harness.pairs))
          => /\ lastCall'.ret
             /\ m_codeResultIsReady'
             /\ m_finalResultCode' = MismatchFrame(harness.bytes)
       /\ (/\ GetCode
           /\ lastCall = Call("isCode", TRUE, EmptyFrame)
           /\ m_finalResultCode = MismatchFrame(harness.bytes))
          => lastCall'.frame = MismatchFrame(harness.bytes)]_vars

C22_Witness ==
    /\ harness.op = "mismatch"
    /\ harness.bytes = <<0, MaxByte, 12, 12>>
    /\ lastCall = Call("getCode", FALSE, DecodedIR(NEC, 12, 0))
    /\ burstsSent = 1

\* C23: a processing step on a snapshot of fewer than two edges makes no
\* pair, leaves the stored frame and the pending flag as they are, returns
\* false and clears m_rawBurstCopied.
C23_ShortSnapshotNoPairs ==
    [][(IsCodeProcess /\ Len(localTransitions) < 2) =>
          /\ processRawTransitionsToPairs(localTransitions) = << >>
          /\ UNCHANGED <<m_finalResultCode, m_codeResultIsReady>>
          /\ lastCall' = Call("isCode", FALSE, EmptyFrame)
          /\ ~m_rawBurstCopied']_vars

C23_Witness ==
    /\ pc = "process"
    /\ Len(localTransitions) = 1
    /\ m_rawTransitionIndex = 0

\* C24: the time the extractor computes between two edges is the time that
\* elapsed between them, modulo 2^31, also when the clock wrapped in
\* between: it is in 0 .. TIME_VALUE_MASK and differs from current - previous
\* by 0 or by 2^31.
C24_DeltaWraps ==
    harness.op = "pairs" =>
        /\ Len(harness.out) = 1
        /\ harness.out[1].pulse = harness.elapsed
        /\ harness.out[1].pulse >= 0
        /\ harness.out[1].pulse <= TIME_VALUE_MASK
        /\ \/ harness.out[1].pulse = harness.current - harness.previous
           \/ (harness.out[1].pulse - TIME_VALUE_MASK) - 1
                 = harness.current - harness.previous

C24_Witness ==
    /\ harness.op = "pairs"
    /\ harness.previous = TIME_VALUE_MASK - 600
    /\ harness.current = 599
    /\ harness.out = <<PulseSpacePair(1200, MISSING)>>

\* C25: the pairs made of a snapshot of up to IR_LIB_MAX_TRANSITIONS edges
\* number at most IR_LIB_MAX_TRANSITIONS / 2, the size of the pair array:
\* one pair for every two edges.
C25_PairCountInBounds ==
    harness.op = "extracted" =>
        /\ Len(harness.out) <= IR_LIB_MAX_TRANSITIONS \div 2
        /\ Len(harness.out) = IF harness.capturedCount < 2 THEN 0
                              ELSE harness.capturedCount \div 2

C25_Witness ==
    /\ harness.op = "extracted"
    /\ harness.capturedCount = IR_LIB_MAX_TRANSITIONS
    /\ Len(harness.out) = IR_LIB_MAX_TRANSITIONS \div 2
    /\ harness.out[Len(harness.out)] = PulseSpacePair(SONY_BIT_SPACE, MISSING)

\* C26: isWithinTolerance accepts expected + tolerance and expected -
\* tolerance and rejects one more on either side; with a tolerance of 10% and
\* an expected time that is a multiple of 10, isWithinPercentageTolerance
\* accepts expected + expected/10 and rejects one microsecond more, and for
\* an expected time of 0 it accepts 0 only.
C26_ToleranceBoundaries ==
    /\ harness.op = "compared" =>
          /\ harness.out[harness.tolerance]
          /\ harness.out[-harness.tolerance]
          /\ ~harness.out[harness.tolerance + 1]
          /\ ~harness.out[-harness.tolerance - 1]
    /\ harness.op = "scaled" =>
          /\ harness.out[harness.expected + harness.expected \div 10]
          /\ ~harness.out[harness.expected + harness.expected \div 10 + 1]
          /\ harness.expected = 0 =>
                \A c \in DOMAIN harness.out : harness.out[c] <=> c = 0

C26_Witness ==
    /\ harness.op = "scaled"
    /\ harness.expected = SONY_BIT_SPACE
    /\ harness.out[660]
    /\ ~harness.out[661]

C26_WitnessAbsolute ==
    /\ harness.op = "compared"
    /\ harness.expected = NEC_PREAMBLE_PULSE
    /\ harness.tolerance = TIMING_TOLERANCE
    /\ harness.out[TIMING_TOLERANCE]
    /\ ~harness.out[TIMING_TOLERANCE + 1]

C26_WitnessZero ==
    /\ harness.op = "scaled"
    /\ harness.expected = 0
    /\ harness.out[0]
    /\ ~harness.out[1]
    /\ ~harness.out[MISSING]

\* the command codes of the button table of a brand
TableCodes(brand) ==
    {ButtonArray(brand)[i].commandCode : i \in DOMAIN ButtonArray(brand)}

\* C27: for a command code that is not in the button table of the brand,
\* getButtonName returns the prefix of the brand ("CMD_" for an unknown
\* brand) followed by the command code in decimal; (SONY, 123) gives
\* "SONY_CMD_123".
C27_UnknownButtonDecimal ==
    harness.op = "named" =>
        /\ harness.commandCode \notin TableCodes(harness.brand) =>
              harness.out = UnknownPrefix(harness.brand) \o itoa(harness.commandCode, 10)
        /\ (harness.brand = SONY /\ harness.commandCode = 123) =>
              harness.out = "SONY_CMD_123"

\* C28: the brand _analyzeAndDecodeBurst chooses has a score that is not zero
\* and is strictly greater than the score of each of the other two brands;
\* when the three scores are zero no brand is chosen, no segment is decoded
\* and no result is ready.
C28_WinnerStrictlyAhead ==
    harness.op = "scored" =>
        /\ harness.winningBrand # UNKNOWN =>
              /\ harness.out.m_brandScores[harness.winningBrand] > 0
              /\ \A b \in (1..(NUM_BRANDS - 1)) \ {harness.winningBrand} :
                    harness.out.m_brandScores[harness.winningBrand]
                        > harness.out.m_brandScores[b]
        /\ (\A b \in 1..(NUM_BRANDS - 1) : harness.out.m_brandScores[b] = 0) =>
              /\ harness.winningBrand = UNKNOWN
              /\ harness.out.m_decodedSegments = << >>
              /\ ~harness.out.m_codeResultIsReady

\* the decoded segments of a processed burst whose command is not -1
ValidSegments(out) ==
    {i \in DOMAIN out.m_decodedSegments : out.m_decodedSegments[i].command # -1}

\* C29: processing ends with a result ready if and only if one of the decoded
\* segments, at most IR_LIB_MAX_DECODED_SEGMENTS of them, has a command other
\* than -1; a segment with command -1 is counted in no voting group and is
\* never the result.
C29_ReadyIffValidSegment ==
    harness.op = "processed" =>
        /\ Len(harness.out.m_decodedSegments) <= IR_LIB_MAX_DECODED_SEGMENTS
        /\ harness.out.m_codeResultIsReady <=> ValidSegments(harness.out) # {}
        /\ \A g \in {CountGroups(harness.out.m_decodedSegments,
                                  harness.out.segmentChecksums, 1, << >>)} :
              \A j \in DOMAIN g :
                 /\ g[j].data.command # -1
                 /\ g[j].count =
                       Cardinality({i \in ValidSegments(harness.out) :
                                       GroupMatches(harness.out.m_decodedSegments[i],
                                                    harness.out.segmentChecksums[i], g[j])})
        /\ IF harness.out.m_codeResultIsReady
           THEN \E i \in ValidSegments(harness.out) :
                   harness.out.m_finalResultCode = harness.out.m_decodedSegments[i]
           ELSE harness.out.m_finalResultCode = EmptyFrame

\* ten segments are decoded, nine of them with command -1 and the last one
\* valid, and its frame is the result
C29_Witness ==
    /\ harness.op = "processed"
    /\ Len(harness.out.m_decodedSegments) = IR_LIB_MAX_DECODED_SEGMENTS
    /\ ValidSegments(harness.out) = {IR_LIB_MAX_DECODED_SEGMENTS}
    /\ harness.out.m_decodedSegments[1] = DecodedIR(SONY, -1, -1)
    /\ harness.out.m_codeResultIsReady
    /\ harness.out.m_finalResultCode = DecodedIR(SONY, 21, 1)

\* segments are decoded, all with command -1, and no result is ready
C29_WitnessNone ==
    /\ harness.op = "processed"
    /\ Len(harness.out.m_decodedSegments) > 1
    /\ ValidSegments(harness.out) = {}
    /\ ~harness.out.m_codeResultIsReady

\* C30: of the values with a command that occur most often among the
\* segments, the one whose first segment is the earliest is the final
\* result; a value that occurs as often and starts later does not replace it.
C30_EarliestGroupWinsTie ==
    harness.op = "vote" =>
        \A k \in 1..Len(harness.decoded) :
            (/\ harness.decoded[k].frame.command # -1
             /\ \A j \in 1..Len(harness.decoded) :
                    harness.decoded[j].frame.command # -1
                    => /\ Occurrences(harness.decoded, harness.decoded[j])
                             <= Occurrences(harness.decoded, harness.decoded[k])
                       /\ j < k => Occurrences(harness.decoded, harness.decoded[j])
                                      < Occurrences(harness.decoded, harness.decoded[k]))
            => harness.out = harness.decoded[k].frame

\* A, B, B, A: two groups of two; B is complete first, A started first
C30_Witness ==
    /\ harness.op = "vote"
    /\ Len(harness.decoded) = 4
    /\ harness.decoded[1].frame.command # -1
    /\ harness.decoded[2].frame.command # -1
    /\ harness.decoded[1].frame # harness.decoded[2].frame
    /\ harness.decoded[3] = harness.decoded[2]
    /\ harness.decoded[4] = harness.decoded[1]
    /\ harness.out = harness.decoded[1].frame

\* C31: a time between two edges of a snapshot that exceeds the idle timeout
\* is never stored as the pulse or the space of a pair, wherever it is in
\* the snapshot: it ends a pair with a MISSING space.
C31_IdleGapNeverStored ==
    pc = "process" =>
        \A pairs \in {processRawTransitionsToPairs(localTransitions)} :
           \A k \in DOMAIN pairs :
              /\ pairs[k].pulse <= IR_LIB_IDLE_TIMEOUT_MS * 1000
              /\ pairs[k].space <= IR_LIB_IDLE_TIMEOUT_MS * 1000

\* C32: a snapshot of n edges, 2 <= n <= IR_LIB_MAX_TRANSITIONS, whose time
\* differences d1 .. d(n-1) are all at most the idle timeout gives
\* ceil((n-1)/2) pairs, pair k (from 0) being (d(2k+1), d(2k+2)) in order, and
\* the last pair has a MISSING space exactly when n is even.
C32_PairsInOrder ==
    (/\ harness.op = "ramped"
     /\ harness.capturedCount >= 2
     /\ harness.first + harness.capturedCount - 1 <= IR_LIB_IDLE_TIMEOUT_MS * 1000)
    => /\ Len(harness.out) = harness.capturedCount \div 2
       /\ 2 * Len(harness.out) \in {harness.capturedCount - 1, harness.capturedCount}
       /\ \A k \in 0..(Len(harness.out) - 1) :
             /\ harness.out[k + 1].pulse = harness.first + 2 * k + 1
             /\ harness.out[k + 1].space =
                   IF 2 * k + 2 <= harness.capturedCount - 1
                   THEN harness.first + 2 * k + 2 ELSE MISSING
       /\ harness.out[Len(harness.out)].space = MISSING
             <=> harness.capturedCount % 2 = 0

\* a snapshot of 299 edges whose last difference is the idle timeout itself:
\* 149 pairs, the last one with that difference as its space
C32_Witness ==
    /\ harness.op = "ramped"
    /\ harness.capturedCount = IR_LIB_MAX_TRANSITIONS - 1
    /\ Len(harness.out) = 149
    /\ harness.out[149].space = IR_LIB_IDLE_TIMEOUT_MS * 1000
    /\ harness.out[149].pulse = IR_LIB_IDLE_TIMEOUT_MS * 1000 - 1
    /\ harness.out[1] = PulseSpacePair(harness.first + 1, harness.first + 2)

\* a snapshot of 300 edges: 150 pairs, the last one a lone pulse
C32_WitnessEven ==
    /\ harness.op = "ramped"
    /\ harness.capturedCount = IR_LIB_MAX_TRANSITIONS
    /\ harness.first = SONY_BIT_SPACE
    /\ Len(harness.out) = 150
    /\ harness.out[150] = PulseSpacePair(SONY_BIT_SPACE + 299, MISSING)

\* C33: for the winning brand the decoding loop ends its segments at the
\* pairs where the scorer of the brand ends them, and skips a leading
\* preamble pair in exactly the segments where the scorer took one.
C33_DecoderFollowsScorer ==
    harness.op = "segmented" =>
        /\ harness.decoder.ends = harness.scorer.ends
        /\ harness.decoder.preambles = harness.scorer.preambles

\* C34: decodeNECData with both address bytes decoded gives the first byte
\* as the address when the second is its inverse, and second * 256 + first
\* otherwise; with 24 bits or more the command is the third byte; the
\* checksum flag is true if and only if all 32 bits were decoded and the
\* fourth byte is the inverse of the third.
C34_NecFields ==
    harness.op = "fields" =>
        /\ harness.bits >= 16 =>
              harness.out.base.address =
                 IF harness.bytes[2] = Inverse(harness.bytes[1])
                 THEN harness.bytes[1]
                 ELSE harness.bytes[2] * 256 + harness.bytes[1]
        /\ harness.bits >= 24 => harness.out.base.command = harness.bytes[3]
        /\ harness.out.checksumValid
             <=> /\ harness.bits = NEC_INITIAL_BITS - 1
                 /\ harness.bytes[4] = Inverse(harness.bytes[3])

\* 24 bits of a frame whose second byte is not the inverse of the first: a
\* 16-bit address, the command, and no checksum
C34_Witness ==
    /\ harness.op = "fields"
    /\ harness.bits = 24
    /\ harness.bytes = <<5, 1, 12, 243>>
    /\ harness.out = [base |-> DecodedIR(NEC, 12, 261), checksumValid |-> FALSE]

\* all 32 bits of a frame with both inverses in place
C34_WitnessValid ==
    /\ harness.op = "fields"
    /\ harness.bits = NEC_INITIAL_BITS - 1
    /\ harness.bytes = <<5, 250, 12, 243>>
    /\ harness.out = [base |-> DecodedIR(NEC, 12, 5), checksumValid |-> TRUE]

\* the pairs sent that must stop the bit loop: a pulse out of tolerance, a
\* space that is neither a zero nor a one, a space missing before the last
\* pair
StoppingPairs(h) ==
    {k \in 1..h.count :
        /\ h.defect.at = k
        /\ \/ h.defect.kind = "pulse"
           \/ h.defect.kind = "space" /\ ~(k = h.count /\ h.lastMissing)
           \/ h.defect.kind = "missing" /\ k # h.count}

\* the bits the loop must take: up to the first stopping pair, the last
\* pair, or the maximum of the brand
ExpectedBitCount(h) ==
    LET upTo == IF StoppingPairs(h) = {} THEN h.count
                ELSE (CHOOSE k \in StoppingPairs(h) : TRUE) - 1
    IN  IF upTo < MaxBitsOf(h.brand) THEN upTo ELSE MaxBitsOf(h.brand)

\* pair k must give a 1: its space is a one-space; a missing last space is
\* a zero-space
ExpectedOne(h, k) ==
    /\ PatternBit(k)
    /\ ~(k = h.count /\ (h.lastMissing \/ (h.defect.at = k /\ h.defect.kind = "missing")))

\* C35: the space-coded decoders of JVC and NEC take one bit from each data
\* pair, least significant first: 0 for a space within TIMING_TOLERANCE of
\* the zero-space, 1 for one within TIMING_TOLERANCE of the one-space, a
\* missing space of the last pair counting as a zero-space; they stop at the
\* first pair whose pulse is out of tolerance or whose space is neither, or
\* after 16 (JVC) or 32 (NEC) bits.
C35_SpaceCodedBits ==
    harness.op = "bits" =>
        /\ harness.bits.bitCount = ExpectedBitCount(harness)
        /\ harness.bits.rawBits =
              {k - 1 : k \in {j \in 1..ExpectedBitCount(harness) : ExpectedOne(harness, j)}}

\* ten JVC pairs, the tenth without a space where the pattern has a 1: ten
\* bits, the tenth a 0
C35_Witness ==
    /\ harness.op = "bits"
    /\ harness.brand = JVC
    /\ harness.count = 10
    /\ harness.lastMissing
    /\ harness.defect = NoDefect
    /\ harness.bits = Bits({0, 3, 6}, 10)
    /\ harness.out = DecodedIR(JVC, -1, 73)

\* 34 NEC pairs at the edge of the tolerance, the 17th with a bad space:
\* sixteen bits
C35_WitnessStop ==
    /\ harness.op = "bits"
    /\ harness.brand = NEC
    /\ harness.count = MaxDataPairs
    /\ harness.offset = TIMING_TOLERANCE
    /\ harness.defect = [at |-> 17, kind |-> "space"]
    /\ harness.bits.bitCount = 16

\* the bits the SONY loop must take: up to the first pair with a defect that
\* was sent, the last pair, or twelve
ExpectedSonyBitCount(h) ==
    LET upTo == IF h.defect.at \in 1..h.count THEN h.defect.at - 1 ELSE h.count
    IN  IF upTo < 12 THEN upTo ELSE 12

\* the number made of the pattern bits from..from + width - 1 (from 0), the
\* first one the least significant
ExpectedSonyField(h, from, width) ==
    LET value[i \in 0..width] ==
            IF i = 0 THEN 0
            ELSE value[i - 1]
                 + (IF SonyPatternBit(from + i, h.complemented) THEN 2 ^ (i - 1) ELSE 0)
    IN  value[width]

\* C36: the SONY decoder takes each bit from the pulse alone (0 within
\* TIMING_TOLERANCE of 600, 1 within TIMING_TOLERANCE of 1200), whatever
\* the space, least significant first and up to 12 bits, and stops at the
\* first pulse that is neither; the command (bits 0-6) is set from 7 bits
\* on and the address (bits 7-11) only with 12 bits, so 7 to 11 bits give a
\* command with address -1.
C36_SonyBits ==
    harness.op = "bits" =>
        /\ harness.bits.bitCount = ExpectedSonyBitCount(harness)
        /\ harness.bits.rawBits =
              {k - 1 : k \in {j \in 1..ExpectedSonyBitCount(harness) :
                                 SonyPatternBit(j, harness.complemented)}}
        /\ harness.out.brand = SONY
        /\ harness.out.command =
              IF ExpectedSonyBitCount(harness) >= 7
              THEN ExpectedSonyField(harness, 0, 7) ELSE -1
        /\ harness.out.address =
              IF ExpectedSonyBitCount(harness) >= 12
              THEN ExpectedSonyField(harness, 7, 5) ELSE -1

\* nine pairs without spaces at the upper edge of the tolerance: nine bits,
\* a command and no address
C36_Witness ==
    /\ harness.op = "bits"
    /\ harness.count = 9
    /\ harness.space = MISSING
    /\ harness.offset = TIMING_TOLERANCE
    /\ ~harness.complemented
    /\ harness.defect = NoDefect
    /\ harness.bits = Bits({0, 3, 6}, 9)
    /\ harness.out = DecodedIR(SONY, 73, -1)

\* thirteen pairs with long spaces, the opposite bits: twelve bits, command
\* and address
C36_WitnessFull ==
    /\ harness.op = "bits"
    /\ harness.count = SONY_INITIAL_BITS
    /\ harness.space = 5000
    /\ harness.complemented
    /\ harness.defect = NoDefect
    /\ harness.bits.bitCount = 12
    /\ harness.out = DecodedIR(SONY, 54, 27)

\* the data pairs of the segment for a scorer: those after the preamble of
\* its brand, all pairs when the segment starts otherwise
DataPairsFor(h, brand) ==
    IF h.lead \in {UNKNOWN, brand} THEN h.data
    ELSE <<PreamblePair(h.lead)>> \o h.data

\* the data pulses are all within TIMING_TOLERANCE of the first one
PulsesAlike(dataPairs) ==
    \A k \in DOMAIN dataPairs :
        Abs(dataPairs[k].pulse - dataPairs[1].pulse) <= TIMING_TOLERANCE

\* the data spaces that are there are all within TIMING_TOLERANCE of the
\* first of them
SpacesAlike(dataPairs) ==
    \A j, k \in {i \in DOMAIN dataPairs : dataPairs[i].space # MISSING} :
        (\A i \in 1..(j - 1) : dataPairs[i].space = MISSING)
            => Abs(dataPairs[k].space - dataPairs[j].space) <= TIMING_TOLERANCE

\* C37: the structure point of a segment goes to a space-coded protocol
\* (JVC, NEC) only when the data pulses are all within TIMING_TOLERANCE of
\* the first data pulse and the data spaces are not all within
\* TIMING_TOLERANCE of one another, and to SONY only when the data pulses
\* vary and the data spaces are all within TIMING_TOLERANCE of one another.
C37_StructurePoint ==
    harness.op = "structure" =>
        /\ \A b \in {JVC, NEC} :
              harness.point[b] =>
                  /\ PulsesAlike(DataPairsFor(harness, b))
                  /\ ~SpacesAlike(DataPairsFor(harness, b))
        /\ harness.point[SONY] =>
              /\ ~PulsesAlike(DataPairsFor(harness, SONY))
              /\ SpacesAlike(DataPairsFor(harness, SONY))

\* the part of C37 about SONY
C37_SonyPoint ==
    harness.op = "structure" =>
        (harness.point[SONY] =>
            /\ ~PulsesAlike(DataPairsFor(harness, SONY))
            /\ SpacesAlike(DataPairsFor(harness, SONY)))

\* the part of C37 about JVC
C37_JvcPoint ==
    harness.op = "structure" =>
        (harness.point[JVC] =>
            /\ PulsesAlike(DataPairsFor(harness, JVC))
            /\ ~SpacesAlike(DataPairsFor(harness, JVC)))

\* the part of C37 about NEC
C37_NecPoint ==
    harness.op = "structure" =>
        (harness.point[NEC] =>
            /\ PulsesAlike(DataPairsFor(harness, NEC))
            /\ ~SpacesAlike(DataPairsFor(harness, NEC)))

\* C38: for every address byte a and command byte c, the burst made of the
\* preamble pair (8400, 4200), sixteen data pairs of pulse 526 and space 526
\* (bit 0) or 1574 (bit 1) carrying a then c, least significant bit first,
\* and a stop pulse of 526 with no space, is scored highest for JVC and
\* decoded to {JVC, address a, command c}, the result ready.
C38_JvcFrameDecodes ==
    harness.op = "jvc" =>
        /\ WinningBrand(harness.out.m_brandScores, 1, 0, UNKNOWN) = JVC
        /\ harness.out.m_decodedSegments = <<DecodedIR(JVC, harness.command, harness.address)>>
        /\ harness.out.m_finalResultCode = DecodedIR(JVC, harness.command, harness.address)
        /\ harness.out.m_codeResultIsReady

\* address 3, command 12, all three points for JVC
C38_Witness ==
    /\ harness.op = "jvc"
    /\ harness.address = 3
    /\ harness.command = 12
    /\ harness.out.m_brandScores[JVC] = 3
    /\ harness.out.m_finalResultCode = DecodedIR(JVC, 12, 3)

\* address and command 0: all spaces alike, no structure point, still JVC
C38_WitnessZero ==
    /\ harness.op = "jvc"
    /\ harness.address = 0
    /\ harness.command = 0
    /\ harness.out.m_brandScores[JVC] = 2
    /\ harness.out.m_finalResultCode = DecodedIR(JVC, 0, 0)

\* C39: a frame that getCode() returns after isCode() returned true has,
\* for SONY, a command in 0..127 and an address of -1 or in 0..31; for JVC,
\* command and address in 0..255; for NEC, a command in 0..255 and an
\* address in 0..65535; so only a SONY frame can have the address -1.
C39_FieldRanges ==
    (harness.op = "got" /\ harness.out.m_codeResultIsReady) =>
        /\ harness.frame.brand \in {SONY, JVC, NEC}
        /\ harness.frame.brand = SONY =>
              /\ harness.frame.command \in 0..127
              /\ harness.frame.address \in {-1} \cup 0..31
        /\ harness.frame.brand = JVC =>
              /\ harness.frame.command \in 0..255
              /\ harness.frame.address \in 0..255
        /\ harness.frame.brand = NEC =>
              /\ harness.frame.command \in 0..255
              /\ harness.frame.address \in 0..65535
        /\ harness.frame.address = -1 => harness.frame.brand = SONY

\* a SONY frame cut after nine bits: a command and no address
C39_Witness ==
    /\ harness.op = "got"
    /\ Len(harness.pairs) = 10
    /\ harness.out.m_codeResultIsReady
    /\ harness.frame = DecodedIR(SONY, 21, -1)

\* an NEC frame cut after three bytes, the second not the inverse of the
\* first: a 16-bit address
C39_WitnessWide ==
    /\ harness.op = "got"
    /\ Len(harness.pairs) = 26
    /\ harness.out.m_codeResultIsReady
    /\ harness.frame = DecodedIR(NEC, 12, 256 + 5)

\* a JVC frame cut after its first byte: an address and no command, no result
C39_WitnessNone ==
    /\ harness.op = "got"
    /\ Len(harness.pairs) = 10
    /\ harness.out.m_decodedSegments = <<DecodedIR(JVC, -1, 3)>>
    /\ ~harness.out.m_codeResultIsReady
    /\ harness.frame = EmptyFrame

\* C40: enable() with no pin set and disable() with the interrupt not
\* attached change nothing: the buffer index, the burst-copied flag, the
\* result-ready flag, the pending frame, the attach flag and every other
\* field of the object stay as they were.
C40_IdleControlChangesNothing ==
    [][(/\ controlCalls' = controlCalls + 1
        /\ \/ lastCall'.op = "enable" /\ m_irPin = -1
           \/ lastCall'.op = "disable" /\ ~m_isInterruptAttached)
       => UNCHANGED <<objVars, attachedPins>>]_vars

\* enable() was called with no pin set, at a time that is not the time the
\* object holds
C40_Witness ==
    /\ lastCall.op = "enable"
    /\ m_irPin = -1
    /\ m_lastTransitionMillis # millis

\* disable() was called on a pin that never has an interrupt, a frame of an
\* earlier burst still stored
C40_WitnessDisable ==
    /\ lastCall.op = "disable"
    /\ m_irPin # -1
    /\ digitalPinToInterrupt(m_irPin) = NOT_AN_INTERRUPT
    /\ ~m_isInterruptAttached
    /\ m_finalResultCode # EmptyFrame

====
